---- MODULE Spec2Model ----
(***************************************************************************)
(* Verification model of perfgo: the perf-script parser (perfscript),      *)
(* and the artifact store that archives binaries and rewrites profile      *)
(* mapping paths (cli/artifacts, cli/perf/record).                         *)
(*                                                                         *)
(* Strings are sequences of one-character strings, so that the parsing,    *)
(* trimming and formatting done by the code is computed, not assumed.      *)
(* Pointers are modelled by the key under which the Parser's maps hold the *)
(* object they point to.                                                   *)
(***************************************************************************)
EXTENDS Integers, Sequences, FiniteSets, TLC

\* ------------------------------------------------------------------------
\* Bounds of the model
\* ------------------------------------------------------------------------

\* number of input lines read by one Parse under Spec
MaxLines == 4

\* number of input lines read by one Parse under MergeSpec
MaxMergeLines == 6

\* width of an address in bits (uint64 in the code, scaled down)
AddrBits == 8

\* number of stack frames of the perf script output of a capture
MaxFrames == 2

\* width of a content digest in bytes (32 for SHA-256 in the code, scaled down)
DigestBytes == 2

\* ------------------------------------------------------------------------
\* Go string functions (package strings, strconv, fmt)
\* ------------------------------------------------------------------------

\* unicode.IsSpace restricted to the characters of the model
IsSpace(c) == c \in {" ", "\t", "\n"}

RECURSIVE TrimLeftSpace(_)
TrimLeftSpace(s) ==
  IF s = <<>> THEN <<>>
  ELSE IF IsSpace(Head(s)) THEN TrimLeftSpace(Tail(s)) ELSE s

RECURSIVE TrimRightSpace(_)
TrimRightSpace(s) ==
  IF s = <<>> THEN <<>>
  ELSE IF IsSpace(s[Len(s)]) THEN TrimRightSpace(SubSeq(s, 1, Len(s) - 1)) ELSE s

\* strings.TrimSpace
TrimSpace(s) == TrimRightSpace(TrimLeftSpace(s))

\* strings.HasPrefix
HasPrefix(s, prefix) ==
  Len(s) >= Len(prefix) /\ SubSeq(s, 1, Len(prefix)) = prefix

\* strings.HasSuffix
HasSuffix(s, suffix) ==
  Len(s) >= Len(suffix) /\ SubSeq(s, Len(s) - Len(suffix) + 1, Len(s)) = suffix

\* strings.TrimPrefix
TrimPrefix(s, prefix) ==
  IF HasPrefix(s, prefix) THEN SubSeq(s, Len(prefix) + 1, Len(s)) ELSE s

\* strings.TrimSuffix
TrimSuffix(s, suffix) ==
  IF HasSuffix(s, suffix) THEN SubSeq(s, 1, Len(s) - Len(suffix)) ELSE s

\* strings.Contains for a one-character substring
Contains(s, c) == \E i \in 1..Len(s) : s[i] = c

\* strings.LastIndex for a one-character substring, 0-based, -1 when absent
LastIndex(s, c) ==
  IF Contains(s, c)
  THEN (CHOOSE i \in 1..Len(s) : s[i] = c /\ \A j \in (i + 1)..Len(s) : s[j] # c) - 1
  ELSE -1

\* strings.Fields: the maximal runs of non-space characters
RECURSIVE FieldsFrom(_, _, _)
FieldsFrom(s, cur, acc) ==
  IF s = <<>> THEN (IF cur = <<>> THEN acc ELSE Append(acc, cur))
  ELSE IF IsSpace(Head(s))
       THEN FieldsFrom(Tail(s), <<>>, IF cur = <<>> THEN acc ELSE Append(acc, cur))
       ELSE FieldsFrom(Tail(s), Append(cur, Head(s)), acc)

Fields(s) == FieldsFrom(s, <<>>, <<>>)

DecDigits == <<"0", "1", "2", "3", "4", "5", "6", "7", "8", "9">>

HexDigits == <<"0", "1", "2", "3", "4", "5", "6", "7", "8", "9",
               "a", "b", "c", "d", "e", "f">>

DigitValue(digits, c) == (CHOOSE i \in 1..Len(digits) : digits[i] = c) - 1

IsDigit(digits, c) == \E i \in 1..Len(digits) : digits[i] = c

RECURSIVE DigitsValue(_, _, _)
DigitsValue(digits, s, acc) ==
  IF s = <<>> THEN acc
  ELSE DigitsValue(digits, Tail(s), acc * Len(digits) + DigitValue(digits, Head(s)))

\* strconv.ParseInt(s, 10, 64): an optional sign and decimal digits
ParseInt(s) ==
  LET neg  == s # <<>> /\ Head(s) = "-"
      body == IF s # <<>> /\ Head(s) \in {"-", "+"} THEN Tail(s) ELSE s
  IN IF body = <<>> \/ \E i \in 1..Len(body) : ~IsDigit(DecDigits, body[i])
     THEN [ok |-> FALSE, v |-> 0]
     ELSE [ok |-> TRUE,
           v  |-> IF neg THEN 0 - DigitsValue(DecDigits, body, 0)
                         ELSE DigitsValue(DecDigits, body, 0)]

\* the largest value of an address
MaxUint == 2 ^ AddrBits - 1

\* strconv.ParseUint(s, 16, 64): hexadecimal digits only, no sign, no prefix;
\* a value that does not fit the width is a range error
ParseUint(s) ==
  IF s = <<>> \/ \E i \in 1..Len(s) : ~IsDigit(HexDigits, s[i])
  THEN [ok |-> FALSE, v |-> 0]
  ELSE IF DigitsValue(HexDigits, s, 0) > MaxUint
       THEN [ok |-> FALSE, v |-> MaxUint]
       ELSE [ok |-> TRUE, v |-> DigitsValue(HexDigits, s, 0)]

\* fmt's %d of a non-negative integer
RECURSIVE Itoa(_)
Itoa(n) ==
  IF n < 10 THEN <<DecDigits[n + 1]>>
  ELSE Append(Itoa(n \div 10), DecDigits[(n % 10) + 1])

\* ------------------------------------------------------------------------
\* The input lines of the model
\* ------------------------------------------------------------------------

Sp == <<" ">>

\* "p 1: 10 a:"  event a, count 10
H_a10 == <<"p">> \o Sp \o <<"1", ":">> \o Sp \o <<"1", "0">> \o Sp \o <<"a", ":">>

\* "p 1:  5 b:"  event b, count 5 (fields separated by a run of spaces)
H_b5 == <<"p">> \o Sp \o <<"1", ":">> \o Sp \o Sp \o <<"5">> \o Sp \o <<"b", ":">>

\* "p 1: 5 a:"  event a, count 5
H_a5 == <<"p">> \o Sp \o <<"1", ":">> \o Sp \o <<"5">> \o Sp \o <<"a", ":">>

\* "p 1: 0 a:"  event a, count 0
H_a0 == <<"p">> \o Sp \o <<"1", ":">> \o Sp \o <<"0">> \o Sp \o <<"a", ":">>

\* "a:"  a header of one field
H_one == <<"a", ":">>

\* "p 1: a:"  a header without a count
H_nocount == <<"p">> \o Sp \o <<"1", ":">> \o Sp \o <<"a", ":">>

\* "\t10 f+1 (/t/m)"
F_f == <<"\t", "1", "0">> \o Sp \o <<"f", "+", "1">> \o Sp \o <<"(", "/", "t", "/", "m", ")">>

\* "    20 g ([k])"
F_g == <<" ", " ", " ", " ", "2", "0">> \o Sp \o <<"g">> \o Sp \o <<"(", "[", "k", "]", ")">>

\* "\t10 f"  the location of F_f, without a path token
F_nopath == <<"\t", "1", "0">> \o Sp \o <<"f">>

\* "\tzz g (/t/m)"  an address that is not hexadecimal
F_badhex == <<"\t", "z", "z">> \o Sp \o <<"g">> \o Sp \o <<"(", "/", "t", "/", "m", ")">>

\* "\t10"  a frame of one field
F_short == <<"\t", "1", "0">>

\* "\tff h (/t/m)"  a frame at the largest address
F_max == <<"\t", "f", "f">> \o Sp \o <<"h">> \o Sp \o <<"(", "/", "t", "/", "m", ")">>

\* "\t10 f (/t/m (d))"  a frame of a binary that was deleted while it ran,
\* as in "(/usr/bin/app (deleted))"
F_deleted ==
  <<"\t", "1", "0">> \o Sp \o <<"f">> \o Sp
    \o <<"(", "/", "t", "/", "m">> \o Sp \o <<"(", "d", ")", ")">>

\* ""  an empty line
L_blank == <<>>

\* "x"  neither indented nor containing a colon
L_other == <<"x">>

\* "p 7 1:"  a header of command, pid and timestamp, without count and event
H_bare == <<"p">> \o Sp \o <<"7">> \o Sp \o <<"1", ":">>

\* the lines of the inputs that exercise headers
HeaderLines == {H_a10, H_one, H_nocount, H_bare, F_f}

\* the lines of the inputs that exercise addresses and paths
FrameLines == {H_a10, F_f, F_g, F_max, F_deleted}

AllLines == {H_a10, H_b5, H_a0, H_one, H_nocount,
             F_f, F_g, F_nopath, F_badhex, F_short, L_blank, L_other}

MergeLines == {H_a10, H_b5, H_a5, H_a0, F_f, F_g}

\* ------------------------------------------------------------------------
\* State
\* ------------------------------------------------------------------------

VARIABLES
  consumed,          \* the lines the scanner has returned so far
  parser,            \* the Parser: profile, functions, locations, mappings
  currentStack,      \* Parse's currentStack: location pointers
  currentEventType,  \* Parse's currentEventType
  currentCount,      \* Parse's currentCount
  pc,                \* "scan" inside the loop of Parse, "done" after its return
  err                \* the error Parse returned, "nil" for none

pvars == <<consumed, parser, currentStack, currentEventType, currentCount, pc, err>>

VARIABLES
  scriptOutput,      \* ProcessPerfData's scriptOutput, as lines
  pids,              \* ProcessPerfData's pids
  testBinaryPath,    \* saveArtifacts' testBinaryPath, "" for none
  binaryPaths,       \* the binaryPaths that ProcessPerfData's loop has yet to visit
  localBinaries,     \* ProcessPerfData's localBinaries: remote path -> local path
  artifacts,         \* history.Artifacts, each with the path and bytes it was read from
  runDirFiles,       \* the names of the files in runDir
  profMapping,       \* the File of each Mapping of runDir/perf.pb.gz
  rewritten,         \* the index of the artifact rewriteProfilePaths was called for, 0 for none
  refused,           \* the remote paths whose transfer copyBinaryFromRemote refused
  apc                \* "copy", "save", "archived"; "idle" outside a capture

avars == <<scriptOutput, pids, testBinaryPath, binaryPaths, localBinaries, artifacts,
           runDirFiles, profMapping, rewritten, refused, apc>>

VARIABLES
  cmd,               \* "test" for runTest on a remote host, "attach" for runAttach on a pod
  spc,               \* the step runTest or runAttach is at, "defers", "returned"
  keepArtifacts,     \* the --keep flag
  resources,         \* the ephemeral resources that exist
  attempted,         \* the ephemeral resources whose removal has been attempted
  deferred,          \* the deferred calls, the last registered first
  finalErr,          \* runTest's finalErr
  ret,               \* the error returned, NoReturn before the return statement
  exitStatus,        \* the exit status of the target process, NotRun before it exits
  stdoutContent,     \* runTest's stdoutContent
  stderrContent,     \* runTest's stderrContent
  history,           \* what recordHistory has written into runDir
  phases,            \* the states of the session entered so far
  failedIn,          \* the state in which the session failed, "none" if it has not
  cleanupFailed      \* a removal of an ephemeral resource has failed

svars == <<cmd, spc, keepArtifacts, resources, attempted, deferred, finalErr, ret,
           exitStatus, stdoutContent, stderrContent, history, phases, failedIn,
           cleanupFailed>>

VARIABLES
  request,           \* the options a perf command is built from
  argv,              \* the argument list of the local execution, <<>> before it is built
  command            \* the command string of the remote execution, <<>> before it is built

cvars == <<request, argv, command>>

VARIABLES
  sess,              \* the capture sessions against remote hosts: their ssh.Client and state
  masters,           \* the control sockets with a live master connection, per machine
  dirs               \* the remote working directories that exist, per host

tvars == <<sess, masters, dirs>>

VARIABLES
  pod,               \* the helper pod in the cluster: "absent", "pending" or "ready"
  polls,             \* the ticks of WaitForPodReady's ticker before the deadline
  ctxDone,           \* the deadline of execCtx has expired
  anyPollOK,         \* a GetPod of WaitForPodReady has succeeded
  wret               \* what WaitForPodReady returned, "none" before it returns

wvars == <<pod, polls, ctxDone, anyPollOK, wret>>

VARIABLES
  proc,              \* /proc/*/cgroup on the node: the descriptor of every entry
  container,         \* a container of the pod: its ContainerID and the identifier in it
  found              \* what findPIDsForContainers has found, NotFound before it returns

rvars == <<proc, container, found>>

VARIABLES
  parse2,            \* a second call of Parse in progress: its input, its locals, its Parser
  calls              \* how many times Parse has been called on the Parser of the first call

xvars == <<parse2, calls>>

\* the variables of the transport and of the cluster
nvars == <<tvars, wvars, rvars, xvars>>

vars == <<pvars, avars, svars, cvars, nvars>>

\* ------------------------------------------------------------------------
\* perfscript.Parser
\* ------------------------------------------------------------------------

EmptyMap == [k \in {} |-> 0]

\* the Profile that Parse installs in p.profile
NewProfile ==
  [SampleType |-> <<>>, Sample |-> <<>>, Location |-> <<>>,
   Function |-> <<>>, Mapping |-> <<>>]

\* New()
New ==
  [profile |-> NewProfile, functions |-> EmptyMap,
   locations |-> EmptyMap, mappings |-> EmptyMap]

\* getOrCreateMapping creating the mapping without listing it in the profile
getOrCreateMapping_Unlisted(P, filename) ==
  IF filename \in DOMAIN P.mappings THEN P
  ELSE [P EXCEPT
          !.mappings = @ @@ (filename :> [ID |-> Len(P.profile.Mapping) + 1,
                                          File |-> filename, Start |-> 0, Limit |-> 0])]

\* getOrCreateFunction creating a function at every call
getOrCreateFunction_AlwaysCreate(P, name) ==
  [P EXCEPT
     !.functions = (name :> [ID |-> Len(P.profile.Function) + 1, Name |-> name]) @@ @,
     !.profile.Function = Append(@, name)]

\* getOrCreateFunction: the parser after the call; the function is the one
\* under key name
getOrCreateFunction(P, name) ==
  IF name \in DOMAIN P.functions THEN P
  ELSE [P EXCEPT
          !.functions = @ @@ (name :> [ID |-> Len(P.profile.Function) + 1, Name |-> name]),
          !.profile.Function = Append(@, name)]

\* getOrCreateMapping: the parser after the call; the mapping is the one
\* under key filename
getOrCreateMapping(P, filename) ==
  IF filename \in DOMAIN P.mappings THEN P
  ELSE [P EXCEPT
          !.mappings = @ @@ (filename :> [ID |-> Len(P.profile.Mapping) + 1,
                                          File |-> filename, Start |-> 0, Limit |-> 0]),
          !.profile.Mapping = Append(@, filename)]

\* the first parenthesized token among parts[2:], "" when there is none
RECURSIVE BinaryPathFrom(_, _)
BinaryPathFrom(parts, i) ==
  IF i > Len(parts) THEN <<>>
  ELSE IF HasPrefix(parts[i], <<"(">>) /\ HasSuffix(parts[i], <<")">>)
       THEN TrimSuffix(TrimPrefix(parts[i], <<"(">>), <<")">>)
       ELSE BinaryPathFrom(parts, i + 1)

\* the fields parseStackFrame extracts from a line of at least two fields
FrameFields(line) ==
  LET parts   == Fields(line)
      parsed  == ParseUint(parts[1])
      idx     == LastIndex(parts[2], "+")
  IN [addr       |-> IF parsed.ok THEN parsed.v ELSE 0,
      funcName   |-> IF idx > 0 THEN SubSeq(parts[2], 1, idx) ELSE parts[2],
      binaryPath |-> BinaryPathFrom(parts, 3)]

\* the key of p.locations
LocKey(funcName, addr) == funcName \o <<":">> \o Itoa(addr)

NoMapping == "nil"

\* parseStackFrame dropping a frame whose address is not hexadecimal
parseStackFrame_DropInvalidAddress(P, line) ==
  IF Len(Fields(line)) < 2 \/ ~ParseUint(Fields(line)[1]).ok THEN [p |-> P, loc |-> "nil"]
  ELSE
    LET f      == FrameFields(line)
        P1     == IF f.binaryPath # <<>> THEN getOrCreateMapping(P, f.binaryPath) ELSE P
        P2     == getOrCreateFunction(P1, f.funcName)
        locKey == LocKey(f.funcName, f.addr)
    IN IF locKey \in DOMAIN P2.locations
       THEN [p |-> P2, loc |-> locKey]
       ELSE [p |-> [P2 EXCEPT
                      !.locations = @ @@ (locKey :>
                          [ID |-> Len(P2.profile.Location) + 1,
                           Mapping |-> IF f.binaryPath # <<>> THEN f.binaryPath ELSE NoMapping,
                           Address |-> f.addr, Function |-> f.funcName]),
                      !.profile.Location = Append(@, locKey)],
             loc |-> locKey]

\* parseStackFrame: the parser after the call and the location returned
\* ("nil" when the line has fewer than two fields)
parseStackFrame(P, line) ==
  IF Len(Fields(line)) < 2 THEN [p |-> P, loc |-> "nil"]
  ELSE
    LET f      == FrameFields(line)
        P1     == IF f.binaryPath # <<>> THEN getOrCreateMapping(P, f.binaryPath) ELSE P
        mapping == IF f.binaryPath # <<>> THEN f.binaryPath ELSE NoMapping
        P2     == getOrCreateFunction(P1, f.funcName)
        locKey == LocKey(f.funcName, f.addr)
    IN IF locKey \in DOMAIN P2.locations
       THEN [p |-> P2, loc |-> locKey]
       ELSE [p |-> [P2 EXCEPT
                      !.locations = @ @@ (locKey :>
                          [ID |-> Len(P2.profile.Location) + 1, Mapping |-> mapping,
                           Address |-> f.addr, Function |-> f.funcName]),
                      !.profile.Location = Append(@, locKey)],
             loc |-> locKey]

\* stacksEqual comparing the lengths of the stacks only
stacksEqual_LengthOnly(P, a, b) == Len(a) = Len(b)

\* stacksEqual: two stacks with the same location IDs
stacksEqual(P, a, b) ==
  /\ Len(a) = Len(b)
  /\ \A i \in 1..Len(a) : P.locations[a[i]].ID = P.locations[b[i]].ID

\* the 1-based index of eventType in SampleType, 0 when absent
SampleTypeIndex(sampleTypes, eventType) ==
  IF \E i \in 1..Len(sampleTypes) : sampleTypes[i].Type = eventType
  THEN CHOOSE i \in 1..Len(sampleTypes) :
         /\ sampleTypes[i].Type = eventType
         /\ \A j \in 1..(i - 1) : sampleTypes[j].Type # eventType
  ELSE 0

\* EnsureSampleType without the widening of the existing samples
EnsureSampleType_NoPad(prof, eventType) ==
  IF SampleTypeIndex(prof.SampleType, eventType) # 0 THEN prof
  ELSE [prof EXCEPT !.SampleType = Append(@, [Type |-> eventType, Unit |-> "count"])]

\* EnsureSampleType widening the existing samples at the front
EnsureSampleType_PadFront(prof, eventType) ==
  IF SampleTypeIndex(prof.SampleType, eventType) # 0 THEN prof
  ELSE [prof EXCEPT
          !.SampleType = Append(@, [Type |-> eventType, Unit |-> "count"]),
          !.Sample = [i \in 1..Len(prof.Sample) |->
                        [prof.Sample[i] EXCEPT !.Value = <<0>> \o @]]]

\* EnsureSampleType appending a sample type without the search for eventType
EnsureSampleType_NoSearch(prof, eventType) ==
  [prof EXCEPT
     !.SampleType = Append(@, [Type |-> eventType, Unit |-> "count"]),
     !.Sample = [i \in 1..Len(prof.Sample) |->
                   [prof.Sample[i] EXCEPT !.Value = Append(@, 0)]]]

\* addSample up to the search for an equal stack: the profile with the
\* sample type of eventType present, every existing sample widened
EnsureSampleType(prof, eventType) ==
  IF SampleTypeIndex(prof.SampleType, eventType) # 0 THEN prof
  ELSE [prof EXCEPT
          !.SampleType = Append(@, [Type |-> eventType, Unit |-> "count"]),
          !.Sample = [i \in 1..Len(prof.Sample) |->
                        [prof.Sample[i] EXCEPT !.Value = Append(@, 0)]]]

\* the index of the first sample whose stack equals stack, 0 when none
ExistingSample(P, prof, stack) ==
  IF \E i \in 1..Len(prof.Sample) : stacksEqual(P, prof.Sample[i].Location, stack)
  THEN CHOOSE i \in 1..Len(prof.Sample) :
         /\ stacksEqual(P, prof.Sample[i].Location, stack)
         /\ \A j \in 1..(i - 1) : ~stacksEqual(P, prof.Sample[j].Location, stack)
  ELSE 0

\* addSample without the merge into the sample of an equal stack
addSample_NoMerge(P, stack, eventType, count) ==
  IF Len(stack) = 0 \/ count = 0 THEN P
  ELSE
    LET prof1     == EnsureSampleType(P.profile, eventType)
        sampleIdx == SampleTypeIndex(prof1.SampleType, eventType)
    IN [P EXCEPT !.profile =
          [prof1 EXCEPT !.Sample = Append(@,
             [Location |-> stack,
              Value    |-> [k \in 1..Len(prof1.SampleType) |->
                              IF k = sampleIdx THEN count ELSE 0]])]]

\* addSample without the early return for a count of zero
addSample_KeepZero(P, stack, eventType, count) ==
  IF Len(stack) = 0 THEN P
  ELSE
    LET prof1     == EnsureSampleType(P.profile, eventType)
        sampleIdx == SampleTypeIndex(prof1.SampleType, eventType)
        existing  == ExistingSample(P, prof1, stack)
    IN IF existing # 0
       THEN [P EXCEPT !.profile =
               [prof1 EXCEPT !.Sample[existing].Value[sampleIdx] = @ + count]]
       ELSE [P EXCEPT !.profile =
               [prof1 EXCEPT !.Sample = Append(@,
                  [Location |-> stack,
                   Value    |-> [k \in 1..Len(prof1.SampleType) |->
                                   IF k = sampleIdx THEN count ELSE 0]])]]

\* addSample: the parser after the call
addSample(P, stack, eventType, count) ==
  IF Len(stack) = 0 \/ count = 0 THEN P
  ELSE
    LET prof1     == EnsureSampleType(P.profile, eventType)
        sampleIdx == SampleTypeIndex(prof1.SampleType, eventType)
        existing  == ExistingSample(P, prof1, stack)
    IN IF existing # 0
       THEN [P EXCEPT !.profile =
               [prof1 EXCEPT !.Sample[existing].Value[sampleIdx] = @ + count]]
       ELSE [P EXCEPT !.profile =
               [prof1 EXCEPT !.Sample = Append(@,
                  [Location |-> stack,
                   Value    |-> [k \in 1..Len(prof1.SampleType) |->
                                   IF k = sampleIdx THEN count ELSE 0]])]]

\* finalizeMapping leaving Start and Limit as getOrCreateMapping made them
finalizeMapping_Untouched(P) == P

\* finalizeMapping: every mapping spans the whole address space
finalizeMapping(P) ==
  [P EXCEPT !.mappings =
     [k \in DOMAIN P.mappings |-> [P.mappings[k] EXCEPT !.Start = 0, !.Limit = MaxUint]]]

\* the test of Parse for a sample header line
IsHeaderLine(line) ==
  /\ Contains(line, ":")
  /\ ~HasPrefix(line, <<"\t">>)
  /\ ~HasPrefix(line, <<" ", " ", " ", " ">>)

\* the test of Parse for a stack frame line
IsFrameLine(line) ==
  HasPrefix(line, <<"\t">>) \/ HasPrefix(line, <<" ", " ", " ", " ">>)

\* the parser once the stack in progress, if any, has been added as a sample
FlushStack(P, stack, eventType, count) ==
  IF Len(stack) > 0 THEN addSample(P, stack, eventType, count) ELSE P

\* the local state of Parse on entry to its loop
ParseStart(P) ==
  [parser |-> [P EXCEPT !.profile = NewProfile], currentStack |-> <<>>,
   currentEventType |-> <<>>, currentCount |-> 0, pc |-> "scan", err |-> "nil"]

\* one iteration of the loop of Parse on line: the state after it
LoopBody(st, line) ==
  IF TrimSpace(line) = <<>> THEN st
  ELSE IF IsHeaderLine(line)
  THEN LET parts   == Fields(line)
           count   == ParseInt(TrimSpace(parts[Len(parts) - 1]))
           flushed == [st EXCEPT
                         !.parser = FlushStack(st.parser, st.currentStack,
                                               st.currentEventType, st.currentCount),
                         !.currentStack = <<>>]
       IN IF Len(parts) < 2
          THEN [flushed EXCEPT !.pc = "done", !.err = "invalid event line"]
          ELSE IF count.ok
          THEN [flushed EXCEPT
                  !.currentEventType = TrimSuffix(TrimSpace(parts[Len(parts)]), <<":">>),
                  !.currentCount = count.v]
          ELSE [flushed EXCEPT
                  !.currentEventType = TrimSuffix(TrimSpace(parts[Len(parts)]), <<":">>),
                  !.pc = "done", !.err = "invalid count"]
  ELSE IF IsFrameLine(line)
  THEN LET r == parseStackFrame(st.parser, line)
       IN [st EXCEPT
             !.parser = r.p,
             !.currentStack = IF r.loc # "nil" THEN Append(@, r.loc) ELSE @]
  ELSE st

\* the end of Parse with an error for a profile without samples
AfterLoop_EmptyIsError(st, scanErr) ==
  LET flushed == FlushStack(st.parser, st.currentStack, st.currentEventType, st.currentCount)
  IN IF scanErr \/ flushed.profile.Sample = <<>>
     THEN [st EXCEPT !.parser = flushed, !.pc = "done", !.err = "error reading input"]
     ELSE [st EXCEPT !.parser = finalizeMapping(flushed), !.pc = "done", !.err = "nil"]

\* the end of Parse without the addition of the last sample
AfterLoop_NoFlush(st, scanErr) ==
  IF scanErr
  THEN [st EXCEPT !.pc = "done", !.err = "error reading input"]
  ELSE [st EXCEPT !.parser = finalizeMapping(st.parser), !.pc = "done", !.err = "nil"]

\* the end of Parse once the scanner has stopped: the last sample is added,
\* then a scanner error is returned, else the mappings are finalized and the
\* profile is returned
AfterLoop(st, scanErr) ==
  LET flushed == FlushStack(st.parser, st.currentStack, st.currentEventType, st.currentCount)
  IN IF scanErr
     THEN [st EXCEPT !.parser = flushed, !.pc = "done", !.err = "error reading input"]
     ELSE [st EXCEPT !.parser = finalizeMapping(flushed), !.pc = "done", !.err = "nil"]

\* the local state of Parse and the Parser, as one record
ParseState ==
  [parser |-> parser, currentStack |-> currentStack,
   currentEventType |-> currentEventType, currentCount |-> currentCount,
   pc |-> pc, err |-> err]

SetParseState(st) ==
  /\ parser' = st.parser
  /\ currentStack' = st.currentStack
  /\ currentEventType' = st.currentEventType
  /\ currentCount' = st.currentCount
  /\ pc' = st.pc
  /\ err' = st.err

\* no capture is being archived
ArchiveIdle ==
  /\ scriptOutput = <<>>
  /\ pids = <<>>
  /\ testBinaryPath = <<>>
  /\ binaryPaths = {}
  /\ localBinaries = EmptyMap
  /\ artifacts = <<>>
  /\ runDirFiles = {}
  /\ profMapping = <<>>
  /\ rewritten = 0
  /\ refused = {}
  /\ apc = "idle"

\* the error value nil, and the return value of a call that has not returned
Nil == [type |-> "nil", code |-> 0]

NoReturn == [type |-> "none", code |-> 0]

\* the exit status of a process that has not exited
NotRun == 0 - 1

\* history.json, stdout.txt and stderr.txt before recordHistory
NoHistory ==
  [Called |-> FALSE, Recorded |-> FALSE, Outputs |-> FALSE, ExitCode |-> 0,
   Stdout |-> "", Stderr |-> ""]

\* no session is running
SessionIdle ==
  /\ cmd = "none"
  /\ spc = "returned"
  /\ keepArtifacts = FALSE
  /\ resources = {}
  /\ attempted = {}
  /\ deferred = <<>>
  /\ finalErr = Nil
  /\ ret = NoReturn
  /\ exitStatus = NotRun
  /\ stdoutContent = ""
  /\ stderrContent = ""
  /\ history = NoHistory
  /\ phases = <<>>
  /\ failedIn = "none"
  /\ cleanupFailed = FALSE

\* no session has a client
TransportIdle ==
  /\ sess = <<>>
  /\ masters = {}
  /\ dirs = {}

\* WaitForPodReady has not been called
WaitIdle ==
  /\ pod = "absent"
  /\ polls = 0
  /\ ctxDone = FALSE
  /\ anyPollOK = FALSE
  /\ wret = "idle"

\* findPIDsForContainers has nothing to return
NotFound == [returned |-> FALSE, ran |-> FALSE, pids |-> <<>>]

\* findPIDsForContainers has not been called
ResolveIdle ==
  /\ proc = <<>>
  /\ container = <<>>
  /\ found = NotFound

\* no second call of Parse
NoParse == [pc |-> "idle"]

ConcurrentIdle == parse2 = NoParse /\ calls = 1

\* nothing happens on the transport nor in the cluster
NetIdle == TransportIdle /\ WaitIdle /\ ResolveIdle /\ ConcurrentIdle

\* no command is being built
CommandIdle ==
  /\ request = <<>>
  /\ argv = <<>>
  /\ command = <<>>

\* parser := New(); parser.Parse(reader) has entered its loop
ParseInit ==
  /\ consumed = <<>>
  /\ parser = ParseStart(New).parser
  /\ currentStack = ParseStart(New).currentStack
  /\ currentEventType = ParseStart(New).currentEventType
  /\ currentCount = ParseStart(New).currentCount
  /\ pc = ParseStart(New).pc
  /\ err = ParseStart(New).err

Init == ParseInit /\ ArchiveIdle /\ SessionIdle /\ CommandIdle /\ NetIdle

\* scanner.Scan() returned line: one iteration of the loop of Parse
ScanLine(line) ==
  /\ pc = "scan"
  /\ consumed' = Append(consumed, line)
  /\ SetParseState(LoopBody(ParseState, line))
  /\ UNCHANGED <<avars, svars, cvars, nvars>>

\* scanner.Scan() returned false at the end of the input: Parse adds the last
\* sample, finalizes the mappings and returns the profile
ReadEOF ==
  /\ pc = "scan"
  /\ SetParseState(AfterLoop(ParseState, FALSE))
  /\ UNCHANGED <<consumed, avars, svars, cvars, nvars>>

\* scanner.Scan() returned false with scanner.Err() set (the reader failed,
\* or a line exceeds the scanner's buffer): Parse adds the last sample and
\* returns the error
ReadError ==
  /\ pc = "scan"
  /\ SetParseState(AfterLoop(ParseState, TRUE))
  /\ UNCHANGED <<consumed, avars, svars, cvars, nvars>>

\* Parse reading an input over AllLines
Scan == \E line \in AllLines : Len(consumed) < MaxLines /\ ScanLine(line)

\* Parse reading an input over MergeLines
MergeScan == \E line \in MergeLines : Len(consumed) < MaxMergeLines /\ ScanLine(line)

Next == Scan \/ ReadEOF \/ ReadError

Spec == Init /\ [][Next]_vars

MergeNext == MergeScan \/ ReadEOF

MergeSpec == Init /\ [][MergeNext]_vars

\* what Parse returned: the profile, or nil together with an error
Returned == pc = "done"

ReturnedProfile == pc = "done" /\ err = "nil"

\* ------------------------------------------------------------------------
\* The input as a sequence of stack blocks
\* ------------------------------------------------------------------------

\* a header line from which Parse recovers an event name and a count
IsGoodHeader(line) ==
  /\ TrimSpace(line) # <<>>
  /\ IsHeaderLine(line)
  /\ Len(Fields(line)) >= 2
  /\ ParseInt(TrimSpace(Fields(line)[Len(Fields(line)) - 1])).ok

\* a header line from which Parse cannot recover them
IsBadHeader(line) ==
  TrimSpace(line) # <<>> /\ IsHeaderLine(line) /\ ~IsGoodHeader(line)

\* a frame line that yields a location
IsGoodFrame(line) ==
  /\ TrimSpace(line) # <<>>
  /\ ~IsHeaderLine(line)
  /\ IsFrameLine(line)
  /\ Len(Fields(line)) >= 2

\* the (function, address) pair of a frame line
FramePair(line) == <<FrameFields(line).funcName, FrameFields(line).addr>>

HeaderEvent(line) == TrimSuffix(TrimSpace(Fields(line)[Len(Fields(line))]), <<":">>)

HeaderCount(line) == ParseInt(TrimSpace(Fields(line)[Len(Fields(line)) - 1])).v

\* what a stack block takes from each line of the model
LineShape ==
  [line \in AllLines \cup MergeLines \cup FrameLines \cup HeaderLines |->
     IF IsGoodHeader(line)
     THEN [kind |-> "header", event |-> HeaderEvent(line), count |-> HeaderCount(line)]
     ELSE IF IsBadHeader(line) THEN [kind |-> "badheader"]
     ELSE IF IsGoodFrame(line)
     THEN [kind |-> "frame", pair |-> FramePair(line), path |-> FrameFields(line).binaryPath]
     ELSE IF TrimSpace(line) = <<>> THEN [kind |-> "blank"]
     ELSE [kind |-> "skipped"]]

\* the stack blocks of lines: each header with the frames up to the next
\* header, as event name, count and (function, address) sequence
RECURSIVE BlocksFrom(_, _)
BlocksFrom(lines, acc) ==
  IF lines = <<>> THEN acc
  ELSE IF LineShape[Head(lines)].kind = "header"
  THEN BlocksFrom(Tail(lines),
         Append(acc, [event |-> LineShape[Head(lines)].event,
                      count |-> LineShape[Head(lines)].count, frames |-> <<>>]))
  ELSE IF LineShape[Head(lines)].kind = "frame" /\ acc # <<>>
  THEN BlocksFrom(Tail(lines),
         [acc EXCEPT ![Len(acc)].frames = Append(@, LineShape[Head(lines)].pair)])
  ELSE BlocksFrom(Tail(lines), acc)

Blocks == BlocksFrom(consumed, <<>>)

\* the sum of the counts of the blocks with the given frames and event
RECURSIVE BlockSum(_, _, _)
BlockSum(blocks, frames, event) ==
  IF blocks = <<>> THEN 0
  ELSE (IF Head(blocks).frames = frames /\ Head(blocks).event = event
        THEN Head(blocks).count ELSE 0) + BlockSum(Tail(blocks), frames, event)

\* the (function, address) sequence of a sample's stack
SampleFrames(sample) ==
  [i \in 1..Len(sample.Location) |->
     <<parser.locations[sample.Location[i]].Function,
       parser.locations[sample.Location[i]].Address>>]

\* the Location-ID sequence of a sample's stack
SampleIDs(sample) ==
  [i \in 1..Len(sample.Location) |-> parser.locations[sample.Location[i]].ID]

Samples == parser.profile.Sample

SampleTypes == parser.profile.SampleType

\* the indices of the samples with the given (function, address) sequence
SamplesOf(frames) == {i \in 1..Len(Samples) : SampleFrames(Samples[i]) = frames}

\* the value a sample holds for an event, 0 when the event has no sample type
ValueFor(sample, event) ==
  IF SampleTypeIndex(SampleTypes, event) = 0 THEN 0
  ELSE sample.Value[SampleTypeIndex(SampleTypes, event)]

\* ------------------------------------------------------------------------
\* Claims about Parse
\* ------------------------------------------------------------------------

\* pairs of blocks with identical frames and the same event name
MergePairs(B) ==
  {pr \in (1..Len(B)) \X (1..Len(B)) :
     /\ pr[1] < pr[2]
     /\ B[pr[1]].frames = B[pr[2]].frames
     /\ B[pr[1]].event = B[pr[2]].event}

OneSampleWithSum(B, frames, event) ==
  /\ Cardinality(SamplesOf(frames)) = 1
  /\ \A i \in SamplesOf(frames) : ValueFor(Samples[i], event) = BlockSum(B, frames, event)

\* C1 as stated: whenever two or more stack blocks have identical ordered
\* (function, address) frame sequences (of at least one frame) and the same
\* event name, the profile
\* Parse returns has exactly one Sample for that stack, and its value for the
\* event is the sum of the counts of those blocks.
C1_Original ==
  ReturnedProfile =>
    LET B == Blocks
    IN \A pr \in MergePairs(B) :
         B[pr[1]].frames # <<>> => OneSampleWithSum(B, B[pr[1]].frames, B[pr[1]].event)

\* C1 amended: whenever two or more stack blocks have identical, non-empty
\* (function, address) frame sequences and the same event name, and at least
\* one of them has a non-zero count, the profile Parse returns has exactly
\* one Sample for that stack, and its value for the event is the sum of the
\* counts of those blocks.
C1_MergeCorrectness ==
  ReturnedProfile =>
    LET B == Blocks
    IN \A pr \in MergePairs(B) :
         ( /\ B[pr[1]].frames # <<>>
           /\ \E k \in 1..Len(B) :
                /\ B[k].frames = B[pr[1]].frames
                /\ B[k].event = B[pr[1]].event
                /\ B[k].count # 0 )
         => OneSampleWithSum(B, B[pr[1]].frames, B[pr[1]].event)

\* two blocks of counts 10 and 5 with the same two-frame stack and event
\* were merged into one Sample of value 15
C1_Witness ==
  /\ ReturnedProfile
  /\ LET B == Blocks
     IN \E pr \in MergePairs(B) :
          /\ Len(B[pr[1]].frames) = 2
          /\ B[pr[1]].count # B[pr[2]].count
          /\ B[pr[1]].count + B[pr[2]].count = 15
          /\ Len(Samples) = 1
          /\ ValueFor(Samples[1], B[pr[1]].event) = 15

\* C2: in every state of a parse, after each sample finalization and when
\* Parse returns, the Value vector of every Sample has as many entries as
\* the profile has SampleTypes.
C2_ValueLength ==
  \A i \in 1..Len(Samples) : Len(Samples[i].Value) = Len(SampleTypes)

\* a Sample created while one event was known has been widened for a second
C2_Witness ==
  /\ Len(SampleTypes) = 2
  /\ \E i \in 1..Len(Samples) :
       /\ Samples[i].Value[1] # 0
       /\ Samples[i].Value[2] = 0

\* the event and count of the block finalized by a step that adds a sample type
NewEventStep == Len(parser'.profile.SampleType) = Len(SampleTypes) + 1

\* the scenario of C3: block A of event a and count 10, then block B of
\* other frames, event b and count 5
C3_Scenario ==
  (ReturnedProfile /\ consumed = <<H_a10, F_f, H_b5, F_g>>) =>
     /\ [i \in 1..Len(SampleTypes) |-> SampleTypes[i].Type] = << <<"a">>, <<"b">> >>
     /\ Len(Samples) = 2
     /\ SampleFrames(Samples[1]) = << << <<"f">>, 16 >> >>
     /\ Samples[1].Value = <<10, 0>>
     /\ SampleFrames(Samples[2]) = << << <<"g">>, 32 >> >>
     /\ Samples[2].Value = <<0, 5>>

Range(seq) == {seq[i] : i \in 1..Len(seq)}

\* C5: every Location of the profile refers to a Function listed in the
\* profile and, when it has a Mapping, to a Mapping listed in the profile.
C5_ReferencesResolve ==
  \A k \in Range(parser.profile.Location) :
    /\ k \in DOMAIN parser.locations
    /\ parser.locations[k].Function \in Range(parser.profile.Function)
    /\ parser.locations[k].Function \in DOMAIN parser.functions
    /\ parser.locations[k].Mapping # NoMapping =>
         /\ parser.locations[k].Mapping \in Range(parser.profile.Mapping)
         /\ parser.locations[k].Mapping \in DOMAIN parser.mappings

\* a returned profile with two Locations that share a Mapping
C5_Witness ==
  /\ ReturnedProfile
  /\ \E k1, k2 \in Range(parser.profile.Location) :
       /\ k1 # k2
       /\ parser.locations[k1].Mapping # NoMapping
       /\ parser.locations[k1].Mapping = parser.locations[k2].Mapping

\* the state of Parse after its loop has read lines
RECURSIVE LoopOver(_, _)
LoopOver(st, lines) ==
  IF lines = <<>> \/ st.pc = "done" THEN st
  ELSE LoopOver(LoopBody(st, Head(lines)), Tail(lines))

\* the profile a new Parser returns for an input of exactly these lines
ParseOf(lines) == AfterLoop(LoopOver(ParseStart(New), lines), FALSE).parser.profile

\* lines without those that yield neither a header, a frame nor an error
RECURSIVE WithoutSkipped(_)
WithoutSkipped(lines) ==
  IF lines = <<>> THEN <<>>
  ELSE IF LineShape[Head(lines)].kind \in {"skipped", "blank"}
       THEN WithoutSkipped(Tail(lines))
       ELSE <<Head(lines)>> \o WithoutSkipped(Tail(lines))

HeaderErrors == {"invalid event line", "invalid count"}

LastIsBadHeader ==
  consumed # <<>> /\ LineShape[consumed[Len(consumed)]].kind = "badheader"

\* an input free of unparsable headers is parsed to the end, and the
\* profile returned is the profile of the input without the lines that are
\* skipped; a frame whose address is not hexadecimal is kept, at address 0
ToleratesMalformed ==
  /\ (\E i \in 1..Len(consumed) : LineShape[consumed[i]].kind = "badheader")
        => (LastIsBadHeader /\ pc = "done" /\ err \in HeaderErrors)
  /\ ReturnedProfile =>
       /\ parser.profile = ParseOf(WithoutSkipped(consumed))
       /\ \A i \in 1..Len(consumed) :
            LineShape[consumed[i]].kind = "frame"
               => \E k \in Range(parser.profile.Location) :
                    <<parser.locations[k].Function, parser.locations[k].Address>>
                       = LineShape[consumed[i]].pair

\* C6 as stated: Parse returns an error only when a header line is
\* unparsable; no other malformed input makes it fail, and the profile is
\* returned without the malformed parts.
C6_Original ==
  /\ (pc = "done" /\ err # "nil") => LastIsBadHeader
  /\ ToleratesMalformed

\* C6 amended: Parse returns an error only when a header line is unparsable
\* or when the scanner stops with an error (the reader failed, or a line is
\* longer than the scanner's buffer); no other malformed input makes it
\* fail, and the profile is returned without the malformed parts.
C6_OnlyHeaderOrReadErrors ==
  /\ [](/\ (pc = "done" /\ err \in HeaderErrors) => LastIsBadHeader
        /\ (pc = "done" /\ err # "nil") => err \in HeaderErrors \cup {"error reading input"}
        /\ ToleratesMalformed)
  /\ [][(err' = "error reading input" /\ err # "error reading input")
           => consumed' = consumed]_vars

\* a profile was returned for an input with a frame of one field, a frame
\* with an invalid address and an unclassifiable line
C6_Witness ==
  /\ ReturnedProfile
  /\ {F_short, F_badhex, L_other} \subseteq Range(consumed)
  /\ Len(Samples) = 1
  /\ SampleFrames(Samples[1]) = << << <<"g">>, 0 >> >>

\* the runs of frames of lines, when a header and a blank line both end
\* the run in progress
RECURSIVE TerminatedRuns(_, _)
TerminatedRuns(lines, acc) ==
  IF lines = <<>> THEN acc
  ELSE IF LineShape[Head(lines)].kind \in {"header", "blank"}
  THEN TerminatedRuns(Tail(lines), Append(acc, <<>>))
  ELSE IF LineShape[Head(lines)].kind = "frame"
  THEN TerminatedRuns(Tail(lines),
         IF acc = <<>> THEN << <<LineShape[Head(lines)].pair>> >>
         ELSE [acc EXCEPT ![Len(acc)] = Append(@, LineShape[Head(lines)].pair)])
  ELSE TerminatedRuns(Tail(lines), acc)

\* C7 as stated: a blank line terminates the current stack, so the stack of
\* every Sample is a run of frame lines that no blank line interrupts.
C7_BlankLineTerminates ==
  ReturnedProfile =>
    \A i \in 1..Len(Samples) :
      SampleFrames(Samples[i]) \in Range(TerminatedRuns(consumed, <<>>))

\* a header, a frame, a blank line and a frame were parsed into one Sample
\* whose stack holds both frames
C7_Witness ==
  /\ ReturnedProfile
  /\ consumed = <<H_a10, F_nopath, L_blank, F_nopath>>
  /\ Len(Samples) = 1
  /\ SampleFrames(Samples[1]) = << << <<"f">>, 16 >>, << <<"f">>, 16 >> >>
  /\ Samples[1].Value = <<10>>

\* ------------------------------------------------------------------------
\* Go path, encoding and hashing functions used by the artifact store
\* ------------------------------------------------------------------------

\* a path without its trailing slashes
RECURSIVE StripTrailingSlashes(_)
StripTrailingSlashes(path) ==
  IF path # <<>> /\ path[Len(path)] = "/"
  THEN StripTrailingSlashes(SubSeq(path, 1, Len(path) - 1))
  ELSE path

\* filepath.Base: the last element of path
Base(path) ==
  IF path = <<>> THEN <<".">>
  ELSE LET stripped == StripTrailingSlashes(path)
           i        == LastIndex(stripped, "/")
           last     == IF i >= 0 THEN SubSeq(stripped, i + 2, Len(stripped)) ELSE stripped
       IN IF last = <<>> THEN <<"/">> ELSE last

\* filepath.Join of a clean directory and a file name
Join(dir, name) == dir \o <<"/">> \o name

\* strings.Index for a one-character substring, 0-based, -1 when absent
Index(s, c) ==
  IF Contains(s, c)
  THEN (CHOOSE i \in 1..Len(s) : s[i] = c /\ \A j \in 1..(i - 1) : s[j] # c) - 1
  ELSE -1

\* strings.SplitN(s, sep, n) for a one-character separator
RECURSIVE SplitN(_, _, _)
SplitN(s, sep, n) ==
  IF n = 1 \/ Index(s, sep) < 0 THEN <<s>>
  ELSE <<SubSeq(s, 1, Index(s, sep))>>
         \o SplitN(SubSeq(s, Index(s, sep) + 2, Len(s)), sep, n - 1)

\* the alphabet of base32.StdEncoding
Base32Alphabet ==
  <<"A", "B", "C", "D", "E", "F", "G", "H", "I", "J", "K", "L", "M",
    "N", "O", "P", "Q", "R", "S", "T", "U", "V", "W", "X", "Y", "Z",
    "2", "3", "4", "5", "6", "7">>

LowerLetters ==
  <<"a", "b", "c", "d", "e", "f", "g", "h", "i", "j", "k", "l", "m",
    "n", "o", "p", "q", "r", "s", "t", "u", "v", "w", "x", "y", "z">>

\* strings.ToLower on the characters of the model
ToLower(s) ==
  [i \in 1..Len(s) |->
     IF \E k \in 1..Len(LowerLetters) : Base32Alphabet[k] = s[i]
     THEN LowerLetters[CHOOSE k \in 1..Len(LowerLetters) : Base32Alphabet[k] = s[i]]
     ELSE s[i]]

\* the bits of a byte, most significant first
ByteBits(b) == [i \in 1..8 |-> (b \div (2 ^ (8 - i))) % 2]

RECURSIVE BitsOf(_)
BitsOf(bytes) ==
  IF bytes = <<>> THEN <<>> ELSE ByteBits(Head(bytes)) \o BitsOf(Tail(bytes))

\* base32 EncodeToString without padding: five bits per character, the last
\* group filled with zero bits
EncodeToString(bytes) ==
  LET bits   == BitsOf(bytes)
      padded == bits \o [i \in 1..((5 - (Len(bits) % 5)) % 5) |-> 0]
  IN [k \in 1..(Len(padded) \div 5) |->
        Base32Alphabet[16 * padded[5 * k - 4] + 8 * padded[5 * k - 3]
                       + 4 * padded[5 * k - 2] + 2 * padded[5 * k - 1]
                       + padded[5 * k] + 1]]

\* the output of sha256sum: two hexadecimal digits per byte
RECURSIVE HexEncode(_)
HexEncode(bytes) ==
  IF bytes = <<>> THEN <<>>
  ELSE <<HexDigits[(Head(bytes) \div 16) + 1], HexDigits[(Head(bytes) % 16) + 1]>>
         \o HexEncode(Tail(bytes))

\* the bytes that fmt.Sscanf("%02x") reads from each pair of digits
HexDecode(hex) ==
  [i \in 1..(Len(hex) \div 2) |-> DigitsValue(HexDigits, SubSeq(hex, 2 * i - 1, 2 * i), 0)]

\* the number a digest is drawn from: every byte of the content and their order
RECURSIVE Absorb(_, _)
Absorb(data, acc) ==
  IF data = <<>> THEN acc ELSE Absorb(Tail(data), acc * 31 + Head(data) + 1)

\* sha256.Sum256 scaled to DigestBytes bytes: a digest of the whole content
\* without collisions among the contents of the model
Sum256(data) ==
  LET v == (Absorb(data, 0) * 1021) % (2 ^ (8 * DigestBytes))
  IN [i \in 1..DigestBytes |-> (v \div (2 ^ (8 * (DigestBytes - i)))) % 256]

\* ------------------------------------------------------------------------
\* The artifact store: perf.ProcessPerfData, runTest, saveArtifacts
\* ------------------------------------------------------------------------

DotBinary == <<".", "b", "i", "n", "a", "r", "y">>

\* the name of the profile in runDir
PerfPbGz == <<"p", "e", "r", "f", ".", "p", "b", ".", "g", "z">>

\* runDir, the directory of the run in the history
RunDir == <<"/", "h">>

\* hashLocalBinary, and the hash of saveArtifacts and copyBinaryFromRemote
hashLocalBinary(data) == ToLower(EncodeToString(Sum256(data)))

\* getRemoteBinaryHash: the hash from the output of sha256sum on the remote host
getRemoteBinaryHash(data) == ToLower(EncodeToString(HexDecode(HexEncode(Sum256(data)))))

\* the name of an archived binary made of its path alone
binaryFilename_BasenameOnly(hash, path) == Base(path)

\* binaryFilename := hash + "." + basename + ".binary"
binaryFilename(hash, path) == hash \o <<".">> \o Base(path) \o DotBinary

\* "\t10 f (/t/m.t)"  a frame in the test binary
A_test == <<"\t", "1", "0">> \o Sp \o <<"f">> \o Sp
            \o <<"(", "/", "t", "/", "m", ".", "t", ")">>

\* "\t20 g (/u/m.t)"  a frame in another binary of the same basename
A_same == <<"\t", "2", "0">> \o Sp \o <<"g">> \o Sp
            \o <<"(", "/", "u", "/", "m", ".", "t", ")">>

\* "\t30 h (/l/c)"  a frame in a shared library
A_lib == <<"\t", "3", "0">> \o Sp \o <<"h">> \o Sp \o <<"(", "/", "l", "/", "c", ")">>

\* the frames of the perf script output of a capture
ArchiveFrames == {A_test, A_same, A_lib, F_g}

\* the perf script outputs of the model: a header and up to MaxFrames frames
ScriptOutputs ==
  {<<H_a10>> \o frames :
     frames \in UNION {[1..n -> ArchiveFrames] : n \in 1..MaxFrames}}

\* the pids given to ProcessPerfData: none, as runTest gives, or one
PidLists == {<<>>, << <<"7">> >>}

\* the test binary built for the run: none, "/b/m.t" or "/b/[k]"
TestBinaryPaths ==
  {<<>>, <<"/", "b", "/", "m", ".", "t">>, <<"/", "b", "/", "[", "k", "]">>}

\* the contents of a binary
Contents == {<<1>>, <<255>>, <<1, 1>>, <<1, 255>>}

\* extractBinaryPaths: the first parenthesized token of every frame line
extractBinaryPaths(lines) ==
  {BinaryPathFrom(Fields(lines[i]), 1) :
     i \in {j \in 1..Len(lines) :
              IsFrameLine(lines[j]) /\ BinaryPathFrom(Fields(lines[j]), 1) # <<>>}}

\* rewriteProfilePaths rewriting every mapping that is not skipped
rewriteProfilePaths_AllMappings(mappingFiles, destBinary, originalBasename) ==
  [i \in 1..Len(mappingFiles) |->
     IF HasPrefix(mappingFiles[i], <<"[">>) THEN mappingFiles[i] ELSE destBinary]

\* rewriteProfilePaths: the File of each Mapping of the profile it writes
rewriteProfilePaths(mappingFiles, destBinary, originalBasename) ==
  [i \in 1..Len(mappingFiles) |->
     IF HasPrefix(mappingFiles[i], <<"[">>) THEN mappingFiles[i]
     ELSE IF Base(mappingFiles[i]) = originalBasename THEN destBinary
     ELSE mappingFiles[i]]

\* the index of the first artifact of type TestBinary, 0 when none
FirstTestBinary(arts) ==
  IF \E i \in 1..Len(arts) : arts[i].Type = "TestBinary"
  THEN CHOOSE i \in 1..Len(arts) :
         /\ arts[i].Type = "TestBinary"
         /\ \A j \in 1..(i - 1) : arts[j].Type # "TestBinary"
  ELSE 0

\* saveArtifacts' originalBasename: hash.basename.binary -> basename
OriginalBasename(file) ==
  LET parts == SplitN(file, ".", 3)
  IN IF Len(parts) >= 3 /\ HasSuffix(file, DotBinary)
     THEN TrimSuffix(parts[2] \o <<".">> \o parts[3], DotBinary)
     ELSE <<>>

\* the File of each Mapping of the profile Parse returns, per script output
MappingFiles == [lines \in ScriptOutputs |-> ParseOf(lines).Mapping]

\* the hash computed on this host, per content
LocalHash == [data \in Contents |-> hashLocalBinary(data)]

\* the hash computed on the remote host, per content
RemoteHash == [data \in Contents |-> getRemoteBinaryHash(data)]

\* ProcessPerfData has extracted the binary paths of scriptOutput
ArchiveInit ==
  /\ ParseInit
  /\ SessionIdle
  /\ CommandIdle
  /\ NetIdle
  /\ scriptOutput \in ScriptOutputs
  /\ pids \in PidLists
  /\ testBinaryPath \in TestBinaryPaths
  /\ binaryPaths = extractBinaryPaths(scriptOutput)
  /\ localBinaries = EmptyMap
  /\ artifacts = <<>>
  /\ runDirFiles = {}
  /\ profMapping = <<>>
  /\ rewritten = 0
  /\ refused = {}
  /\ apc = "copy"

\* the loop of ProcessPerfData runs
CopyLoop == apc = "copy" /\ binaryPaths # {} /\ Len(pids) > 0

\* the loop of ProcessPerfData skips a special path such as [kernel.kallsyms]
SkipSpecialPath(remotePath) ==
  /\ CopyLoop
  /\ remotePath \in binaryPaths
  /\ HasPrefix(remotePath, <<"[">>)
  /\ binaryPaths' = binaryPaths \ {remotePath}
  /\ UNCHANGED <<pvars, svars, cvars, nvars, scriptOutput, pids, testBinaryPath, localBinaries, artifacts,
                 runDirFiles, profMapping, rewritten, refused, apc>>

\* the loop of ProcessPerfData leaves a binary out: it is found under no
\* /proc/<pid>/root, or its hash cannot be had, or its copy fails
BinaryUnavailable(remotePath) ==
  /\ CopyLoop
  /\ remotePath \in binaryPaths
  /\ ~HasPrefix(remotePath, <<"[">>)
  /\ binaryPaths' = binaryPaths \ {remotePath}
  /\ UNCHANGED <<pvars, svars, cvars, nvars, scriptOutput, pids, testBinaryPath, localBinaries, artifacts,
                 runDirFiles, profMapping, rewritten, refused, apc>>

\* copyBinaryFromRemote accepting whatever bytes it received
copyBinaryFromRemote_Unverified(received, expectedHash) == TRUE

\* copyBinaryFromRemote: the bytes received are accepted when their hash,
\* computed on this host, equals the hash computed on the remote host
copyBinaryFromRemote(received, expectedHash) == LocalHash[received] = expectedHash

\* the loop of ProcessPerfData copies a binary of content data into runDir
\* under the name made of its remote hash: the bytes received are written
\* once copyBinaryFromRemote has accepted them
CopyBinary(remotePath, data, received) ==
  /\ CopyLoop
  /\ remotePath \in binaryPaths
  /\ ~HasPrefix(remotePath, <<"[">>)
  /\ copyBinaryFromRemote(received, RemoteHash[data])
  /\ LET name == binaryFilename(RemoteHash[data], remotePath)
     IN /\ runDirFiles' = runDirFiles \cup {name}
        /\ localBinaries' = (remotePath :> Join(RunDir, name)) @@ localBinaries
        /\ artifacts' = Append(artifacts,
             [Type |-> "TestBinary", File |-> name, Path |-> remotePath,
              Data |-> received, Remote |-> data])
  /\ binaryPaths' = binaryPaths \ {remotePath}
  /\ UNCHANGED <<pvars, svars, cvars, nvars, scriptOutput, pids, testBinaryPath, profMapping, rewritten,
                 refused, apc>>

\* copyBinaryFromRemote returns the hash mismatch error: nothing is written,
\* and the loop of ProcessPerfData goes on to the next binary
HashMismatch(remotePath, data, received) ==
  /\ CopyLoop
  /\ remotePath \in binaryPaths
  /\ ~HasPrefix(remotePath, <<"[">>)
  /\ ~copyBinaryFromRemote(received, RemoteHash[data])
  /\ refused' = refused \cup {remotePath}
  /\ binaryPaths' = binaryPaths \ {remotePath}
  /\ UNCHANGED <<pvars, svars, cvars, nvars, scriptOutput, pids, testBinaryPath, localBinaries, artifacts,
                 runDirFiles, profMapping, rewritten, apc>>

\* ProcessPerfData parses scriptOutput, points the mappings of the copied
\* binaries at their copies and writes the profile; runTest registers the
\* binaries returned
WriteProfile ==
  /\ apc = "copy"
  /\ binaryPaths = {} \/ Len(pids) = 0
  /\ profMapping' =
       [i \in 1..Len(MappingFiles[scriptOutput]) |->
          LET file == MappingFiles[scriptOutput][i]
          IN IF file \in DOMAIN localBinaries THEN localBinaries[file] ELSE file]
  /\ runDirFiles' = runDirFiles \cup {PerfPbGz}
  /\ apc' = "save"
  /\ UNCHANGED <<pvars, svars, cvars, nvars, scriptOutput, pids, testBinaryPath, binaryPaths, localBinaries,
                 artifacts, rewritten, refused>>

\* history.Artifacts once saveArtifacts has saved the test binary
WithTestBinary(arts, path, data) ==
  Append(arts, [Type |-> "TestBinary",
                File |-> binaryFilename(LocalHash[data], path),
                Path |-> path, Data |-> data, Remote |-> data])

\* recordHistory calls saveArtifacts: the test binary, when there is one and
\* it can be read and written (saved), is stored under its hash; the profile
\* is rewritten for the first TestBinary artifact, unless it cannot be read
\* or written back (rewrote is false), and registered
saveArtifacts(data, saved, rewrote) ==
  /\ apc = "save"
  /\ saved => testBinaryPath # <<>>
  /\ LET arts     == IF saved THEN WithTestBinary(artifacts, testBinaryPath, data)
                     ELSE artifacts
         first    == FirstTestBinary(arts)
         destBinary == IF first = 0 THEN <<>> ELSE Join(RunDir, arts[first].File)
         originalBasename == IF first = 0 THEN <<>> ELSE OriginalBasename(arts[first].File)
         called   == destBinary # <<>> /\ originalBasename # <<>> /\ rewrote
     IN /\ runDirFiles' = IF saved THEN runDirFiles \cup {arts[Len(arts)].File}
                          ELSE runDirFiles
        /\ profMapping' = IF called
                          THEN rewriteProfilePaths(profMapping, destBinary, originalBasename)
                          ELSE profMapping
        /\ rewritten' = IF called THEN first ELSE 0
        /\ artifacts' = Append(arts, [Type |-> "PprofProfile", File |-> PerfPbGz,
                                      Path |-> <<>>, Data |-> <<>>, Remote |-> <<>>])
  /\ apc' = "archived"
  /\ UNCHANGED <<pvars, svars, cvars, nvars, scriptOutput, pids, testBinaryPath, binaryPaths, localBinaries,
                 refused>>

SkipSpecial == \E remotePath \in binaryPaths : SkipSpecialPath(remotePath)

Unavailable == \E remotePath \in binaryPaths : BinaryUnavailable(remotePath)

Copy ==
  \E remotePath \in binaryPaths : \E data, received \in Contents :
    CopyBinary(remotePath, data, received)

Mismatch ==
  \E remotePath \in binaryPaths : \E data, received \in Contents :
    HashMismatch(remotePath, data, received)

Save == \E data \in Contents : \E saved, rewrote \in BOOLEAN : saveArtifacts(data, saved, rewrote)

ArchiveNext == SkipSpecial \/ Unavailable \/ Copy \/ Mismatch \/ WriteProfile \/ Save

ArchiveSpec == ArchiveInit /\ [][ArchiveNext]_vars

Archived == apc = "archived"

\* ------------------------------------------------------------------------
\* Claims about the artifact store
\* ------------------------------------------------------------------------

\* a pseudo-mapping: a path delimited by brackets
IsBracketDelimited(file) == HasPrefix(file, <<"[">>) /\ HasSuffix(file, <<"]">>)

\* C8 as stated: once a capture has been archived, every Mapping of the
\* stored profile that is not a bracket-delimited pseudo-mapping points at a
\* file present in the archive directory.
C8_SelfContained ==
  Archived =>
    \A i \in 1..Len(profMapping) :
      ~IsBracketDelimited(profMapping[i])
         => \E name \in runDirFiles : profMapping[i] = Join(RunDir, name)

\* a capture archived with no pids, as runTest gives: the test binary was
\* saved and its Mapping points at the copy, while the Mapping of the
\* library still holds the path on the machine of the capture
C8_Witness ==
  /\ Archived
  /\ pids = <<>>
  /\ rewritten # 0
  /\ Len(profMapping) = 2
  /\ profMapping[1] = Join(RunDir, artifacts[rewritten].File)
  /\ artifacts[rewritten].File \in runDirFiles
  /\ profMapping[2] = <<"/", "l", "/", "c">>

\* C9: in the step in which saveArtifacts rewrites the profile for an
\* archived binary, every Mapping that is not bracket-delimited and whose
\* basename equals the basename of the path the binary was read from gets
\* the archived path, and every other Mapping keeps its File.
C9_RewriteByBasename ==
  [][(apc = "save" /\ rewritten' # 0) =>
       /\ Len(profMapping') = Len(profMapping)
       /\ \A i \in 1..Len(profMapping) :
            profMapping'[i] =
              IF /\ ~IsBracketDelimited(profMapping[i])
                 /\ Base(profMapping[i]) = Base(artifacts'[rewritten'].Path)
              THEN Join(RunDir, artifacts'[rewritten'].File)
              ELSE profMapping[i]]_vars

\* the profile was rewritten for the binary m.t: the Mappings /t/m.t and
\* /u/m.t point at the archived copy, the Mapping [k] is as it was
C9_Witness ==
  /\ Archived
  /\ rewritten # 0
  /\ Base(artifacts[rewritten].Path) = <<"m", ".", "t">>
  /\ MappingFiles[scriptOutput] \in
       { << <<"/", "t", "/", "m", ".", "t">>, <<"[", "k", "]">> >>,
         << <<"/", "u", "/", "m", ".", "t">>, <<"[", "k", "]">> >> }
  /\ profMapping = <<Join(RunDir, artifacts[rewritten].File), <<"[", "k", "]">> >>

\* the archived binaries
Binaries == {artifacts[i] : i \in {j \in 1..Len(artifacts) : artifacts[j].Type = "TestBinary"}}

C11_MismatchRefused ==
  /\ \A path \in refused :
       /\ path \notin DOMAIN localBinaries
       /\ \A a \in Binaries : a.Path # path
       /\ \A name \in runDirFiles :
            HasSuffix(name, <<".">> \o Base(path) \o DotBinary)
               => \E a \in Binaries : a.File = name
  /\ \A a \in Binaries :
       /\ LocalHash[a.Data] = RemoteHash[a.Remote]
       /\ a.Data = a.Remote
       /\ a.File \in runDirFiles

\* a capture was archived after the transfer of /l/c was refused and that of
\* /t/m.t accepted: only the Mapping of /t/m.t points into runDir
C11_Witness ==
  /\ Archived
  /\ refused = {<<"/", "l", "/", "c">>}
  /\ \E a \in Binaries : a.Path = <<"/", "t", "/", "m", ".", "t">>
  /\ profMapping[2] = <<"/", "l", "/", "c">>
  /\ profMapping[1] # <<"/", "t", "/", "m", ".", "t">>

\* ---------------------------------------------------------------------------
\* The capture session: runTest on a remote host in profile mode, and
\* runAttach on a pod
\* ---------------------------------------------------------------------------

\* an error made by fmt.Errorf: its dynamic type is not *exec.ExitError
ErrorString == [type |-> "errorString", code |-> 0]

\* the exit statuses of the target, what it prints, and what it writes to stderr
ExitStatuses == {0, 1, 2}

Outputs == {"", "out"}

ErrOutputs == {"", "err"}

\* the resources a session creates for its own use
Ephemeral == {"remoteBaseDir", "pod", "privateKey", "hostKey", "controlSocket"}

\* one call of the session: what it creates, whether a failed call can leave
\* it behind, and the deferred call registered once it has succeeded
Step(name, creates, partial, defer) ==
  [name |-> name, creates |-> creates, partial |-> partial, defer |-> defer]

\* the calls of runTest up to the execution of the test binary
TestSteps ==
  << Step("rand.Read", {}, FALSE, ""),
     Step("prepareHistoryDir", {}, FALSE, "recordHistory"),
     Step("validateTestPath", {}, FALSE, ""),
     Step("ssh.New", {"controlSocket"}, FALSE, "Close"),
     Step("DetectSystem", {}, FALSE, ""),
     Step("buildTestBinary", {"testBinary"}, FALSE, ""),
     Step("GetRemoteRepositoryDir", {}, FALSE, ""),
     Step("SyncDirectoryToRemote", {"remoteBaseDir"}, TRUE, ""),
     Step("CopyBinaryToRemote", {"remoteBaseDir"}, TRUE, "cleanup") >>

\* the calls of runAttach for a pod, after the context's cancel is deferred
AttachSteps ==
  << Step("GetPod", {}, FALSE, ""),
     Step("rand.Read", {}, FALSE, ""),
     Step("CreatePrivilegedPod", {"pod"}, FALSE, ""),
     Step("WaitForPodReady", {}, FALSE, ""),
     Step("setupSSHKeys", {"privateKey", "hostKey"}, TRUE, ""),
     Step("ssh.New", {"controlSocket"}, FALSE, "Close"),
     Step("findPIDsForContainers", {}, FALSE, "") >>

Steps == IF cmd = "attach" THEN AttachSteps ELSE TestSteps

AtStep == \E i \in 1..Len(Steps) : Steps[i].name = spc

StepIndex == CHOOSE i \in 1..Len(Steps) : Steps[i].name = spc

\* the defer statement after a call: the removal of the remote directory is
\* deferred only if !keepArtifacts
Registers(st) ==
  IF st.defer = "" \/ (st.defer = "cleanup" /\ keepArtifacts) THEN <<>> ELSE <<st.defer>>

\* a return statement: the deferred calls run, the last registered first
AfterReturn(d) == IF d = <<>> THEN "returned" ELSE "defers"

\* executeRemoteTestInDir's error for a test binary that exited with status
executeRemoteTestInDir(status) == IF status = 0 THEN Nil ELSE ErrorString

\* history.ExitCode as the deferred function of runTest sets it
ExitCode_Zero(e) == 0

ExitCode(e) ==
  IF e # Nil THEN (IF e.type = "ExitError" THEN e.code ELSE 1) ELSE 0

\* what the deferred removal of the remote directory makes of the return value
cleanupResult_Escalated(r, ok) == IF ok THEN r ELSE ErrorString

cleanupResult(r, ok) == r

SessionInit ==
  /\ ParseInit
  /\ ArchiveIdle
  /\ CommandIdle
  /\ NetIdle
  /\ cmd \in {"test", "attach"}
  /\ keepArtifacts \in (IF cmd = "test" THEN BOOLEAN ELSE {FALSE})
  /\ spc = (IF cmd = "test" THEN TestSteps[1].name ELSE AttachSteps[1].name)
  /\ deferred = (IF cmd = "test" THEN <<>> ELSE <<"cancel">>)
  /\ resources = {}
  /\ attempted = {}
  /\ finalErr = Nil
  /\ ret = NoReturn
  /\ exitStatus = NotRun
  /\ stdoutContent = ""
  /\ stderrContent = ""
  /\ history = NoHistory
  /\ phases = <<"Idle">>
  /\ failedIn = "none"
  /\ cleanupFailed = FALSE

\* the call at spc succeeds
StepOK ==
  /\ AtStep
  /\ LET i == StepIndex
         st == Steps[i]
     IN /\ resources' = resources \cup st.creates
        /\ deferred' = Registers(st) \o deferred
        /\ spc' = IF i < Len(Steps) THEN Steps[i + 1].name
                  ELSE IF cmd = "test" THEN "execute" ELSE "attach"
        /\ phases' = IF i = Len(Steps) THEN Append(phases, "Prepared") ELSE phases
  /\ UNCHANGED <<pvars, avars, cvars, nvars, cmd, keepArtifacts, attempted, finalErr, ret, exitStatus,
                 stdoutContent, stderrContent, history, failedIn, cleanupFailed>>

\* the call at spc fails: if err != nil { return err }
StepFail ==
  /\ AtStep
  /\ LET st == Steps[StepIndex]
     IN /\ \E left \in (IF st.partial THEN SUBSET st.creates ELSE {{}}) :
             resources' = resources \cup left
        /\ failedIn' = st.name
  /\ ret' = ErrorString
  /\ spc' = AfterReturn(deferred)
  /\ UNCHANGED <<pvars, avars, cvars, nvars, cmd, keepArtifacts, attempted, deferred, finalErr,
                 exitStatus, stdoutContent, stderrContent, history, phases,
                 cleanupFailed>>

\* executeRemoteTestInDir: the test binary runs under perf record and exits
\* with status, or the command could not be run at all
Execute(status, out, errout, ran) ==
  /\ spc = "execute"
  /\ phases' = Append(phases, "Running")
  /\ stdoutContent' = out
  /\ stderrContent' = errout
  /\ exitStatus' = IF ran THEN status ELSE NotRun
  /\ LET e == IF ran THEN executeRemoteTestInDir(status) ELSE ErrorString
     IN IF e = Nil
        THEN /\ spc' = "process"
             /\ UNCHANGED <<finalErr, ret, failedIn>>
        ELSE /\ finalErr' = e
             /\ ret' = e
             /\ failedIn' = "Running"
             /\ spc' = AfterReturn(deferred)
  /\ UNCHANGED <<pvars, avars, cvars, nvars, cmd, keepArtifacts, resources, attempted, deferred,
                 history, cleanupFailed>>

\* perf.ProcessPerfData: perf script on the remote host, the parse of its
\* output, perf.pb.gz written into runDir
Process(outcome) ==
  /\ spc = "process"
  /\ outcome \in {"ok", "collection", "parsing"}
  /\ phases' = CASE outcome = "ok" -> phases \o <<"Collected", "Parsed">>
                 [] outcome = "parsing" -> Append(phases, "Collected")
                 [] OTHER -> phases
  /\ finalErr' = IF outcome = "ok" THEN finalErr ELSE ErrorString
  /\ ret' = IF outcome = "ok" THEN Nil ELSE ErrorString
  /\ failedIn' = IF outcome = "ok" THEN failedIn ELSE outcome
  /\ spc' = AfterReturn(deferred)
  /\ UNCHANGED <<pvars, avars, cvars, nvars, cmd, keepArtifacts, resources, attempted, deferred,
                 exitStatus, stdoutContent, stderrContent, history, cleanupFailed>>

\* runAttach with its PIDs found: "perf ... attach not yet implemented"
AttachReturn ==
  /\ spc = "attach"
  /\ ret' = ErrorString
  /\ spc' = AfterReturn(deferred)
  /\ UNCHANGED <<pvars, avars, cvars, nvars, cmd, keepArtifacts, resources, attempted, deferred,
                 finalErr, exitStatus, stdoutContent, stderrContent, history, phases,
                 failedIn, cleanupFailed>>

\* the deferred rm -rf remoteBaseDir; a failure is logged
DeferredCleanup(ok) ==
  /\ spc = "defers"
  /\ Head(deferred) = "cleanup"
  /\ attempted' = attempted \cup {"remoteBaseDir"}
  /\ resources' = IF ok THEN resources \ {"remoteBaseDir"} ELSE resources
  /\ cleanupFailed' = (cleanupFailed \/ ~ok)
  /\ ret' = cleanupResult(ret, ok)
  /\ phases' = Append(phases, "Cleaned")
  /\ deferred' = Tail(deferred)
  /\ spc' = AfterReturn(Tail(deferred))
  /\ UNCHANGED <<pvars, avars, cvars, nvars, cmd, keepArtifacts, finalErr, exitStatus, stdoutContent,
                 stderrContent, history, failedIn>>

\* the deferred sshClient.Close(): ssh -O exit and os.Remove(controlPath),
\* their errors dropped
DeferredClose(ok) ==
  /\ spc = "defers"
  /\ Head(deferred) = "Close"
  /\ attempted' = attempted \cup {"controlSocket"}
  /\ resources' = IF ok THEN resources \ {"controlSocket"} ELSE resources
  /\ cleanupFailed' = (cleanupFailed \/ ~ok)
  /\ deferred' = Tail(deferred)
  /\ spc' = AfterReturn(Tail(deferred))
  /\ UNCHANGED <<pvars, avars, cvars, nvars, cmd, keepArtifacts, finalErr, ret, exitStatus,
                 stdoutContent, stderrContent, history, phases, failedIn>>

\* the deferred function of runTest: history.ExitCode from finalErr, then
\* recordHistory (stdout.txt, stderr.txt, saveArtifacts, history.json, each
\* failure logged), then os.Remove(testBinaryPath)
DeferredRecordHistory(outputsWritten, saved, metadataWritten, removed) ==
  /\ spc = "defers"
  /\ Head(deferred) = "recordHistory"
  /\ history' = [Called |-> TRUE,
                 Recorded |-> metadataWritten,
                 Outputs |-> outputsWritten,
                 ExitCode |-> ExitCode(finalErr),
                 Stdout |-> IF outputsWritten THEN stdoutContent ELSE "",
                 Stderr |-> IF outputsWritten THEN stderrContent ELSE ""]
  /\ phases' = Append(phases, "Archived")
  /\ failedIn' = IF ~saved /\ failedIn = "none" THEN "archiving" ELSE failedIn
  /\ IF "testBinary" \in resources
     THEN /\ attempted' = attempted \cup {"testBinary"}
          /\ resources' = IF removed THEN resources \ {"testBinary"} ELSE resources
          /\ cleanupFailed' = (cleanupFailed \/ ~removed)
     ELSE /\ removed
          /\ UNCHANGED <<attempted, resources, cleanupFailed>>
  /\ deferred' = Tail(deferred)
  /\ spc' = AfterReturn(Tail(deferred))
  /\ UNCHANGED <<pvars, avars, cvars, nvars, cmd, keepArtifacts, finalErr, ret, exitStatus,
                 stdoutContent, stderrContent>>

\* the deferred cancel() of runAttach's context
DeferredCancel ==
  /\ spc = "defers"
  /\ Head(deferred) = "cancel"
  /\ deferred' = Tail(deferred)
  /\ spc' = AfterReturn(Tail(deferred))
  /\ UNCHANGED <<pvars, avars, cvars, nvars, cmd, keepArtifacts, resources, attempted, finalErr, ret,
                 exitStatus, stdoutContent, stderrContent, history, phases, failedIn,
                 cleanupFailed>>

SessionNext ==
  \/ StepOK
  \/ StepFail
  \/ \E status \in ExitStatuses, out \in Outputs, errout \in ErrOutputs, ran \in BOOLEAN :
       Execute(status, out, errout, ran)
  \/ \E outcome \in {"ok", "collection", "parsing"} : Process(outcome)
  \/ AttachReturn
  \/ \E ok \in BOOLEAN : DeferredCleanup(ok)
  \/ \E ok \in BOOLEAN : DeferredClose(ok)
  \/ \E outputsWritten, saved, metadataWritten, removed \in BOOLEAN :
       DeferredRecordHistory(outputsWritten, saved, metadataWritten, removed)
  \/ DeferredCancel

SessionSpec == SessionInit /\ [][SessionNext]_vars

\* runTest or runAttach has returned
SessionReturned == cmd # "none" /\ spc = "returned"

\* C12: when runAttach has returned, the private key and the host key that
\* setupSSHKeys wrote under ~/.ssh/perfgo are gone, whatever the exit path
C12_KeysDeleted ==
  (SessionReturned /\ cmd = "attach") => resources \cap {"privateKey", "hostKey"} = {}

\* runAttach has returned after setupSSHKeys wrote both files
C12_Witness ==
  /\ SessionReturned
  /\ cmd = "attach"
  /\ failedIn = "none"
  /\ {"privateKey", "hostKey"} \subseteq resources

\* C13: a session that failed in a state other than Running (while the working
\* tree was synced, the binary placed, the helper pod awaited, the data
\* collected or parsed) has attempted to remove every ephemeral resource that
\* still exists when it returns
C13_CleanupAttempted ==
  (SessionReturned /\ ~keepArtifacts /\ failedIn \notin {"none", "Running", "archiving"})
    => (resources \cap Ephemeral) \subseteq attempted

\* the working-tree sync failed after it had created the remote directory
C13_Witness ==
  /\ SessionReturned
  /\ ~keepArtifacts
  /\ failedIn = "SyncDirectoryToRemote"
  /\ "remoteBaseDir" \in resources
  /\ "remoteBaseDir" \notin attempted

\* C14: a session whose target exited with a non-zero status has gone on to
\* collect, parse and archive
C14_FailedTargetStillProcessed ==
  (SessionReturned /\ exitStatus \notin {NotRun, 0})
    => \A p \in {"Collected", "Parsed", "Archived"} :
         \E i \in DOMAIN phases : phases[i] = p

\* the target exited with status 2 and the session returned without collecting
C14_Witness ==
  /\ SessionReturned
  /\ exitStatus = 2
  /\ \A i \in DOMAIN phases : phases[i] # "Collected"

\* C15: the recorded run of a target that exited with a non-zero status
\* carries exactly that status, with the output and the error output
C15_ExitStatusRecorded ==
  (SessionReturned /\ history.Recorded /\ exitStatus \notin {NotRun, 0})
    => /\ history.ExitCode = exitStatus
       /\ history.Outputs => (history.Stdout = stdoutContent /\ history.Stderr = stderrContent)

\* the target exited with status 2 and history.json was written with ExitCode 1
C15_Witness ==
  /\ SessionReturned
  /\ history.Recorded
  /\ history.Outputs
  /\ exitStatus = 2
  /\ history.ExitCode = 1
  /\ history.Stdout = "out"

\* the target ran and exited, and post-processing or archiving failed
C16_Case ==
  /\ SessionReturned
  /\ exitStatus # NotRun
  /\ failedIn \in {"collection", "parsing", "archiving"}

C17_StateOrder ==
  LET Order == <<"Idle", "Prepared", "Running", "Collected", "Parsed", "Archived",
                 "Cleaned">>
  IN (ret \in {NoReturn, Nil})
       => \A i \in DOMAIN phases : i <= Len(Order) /\ phases[i] = Order[i]

\* a successful session removed the remote directory, then archived
C17_Witness ==
  /\ SessionReturned
  /\ ret = Nil
  /\ ~keepArtifacts
  /\ phases = <<"Idle", "Prepared", "Running", "Collected", "Parsed", "Cleaned",
                "Archived">>

\* C18: when a session without --keep has returned and no removal has failed,
\* no remote directory, helper pod, key or control socket is left
C18_NothingLeft ==
  (SessionReturned /\ ~keepArtifacts /\ ~cleanupFailed) => resources \cap Ephemeral = {}

\* runAttach has returned, its control socket closed, its pod and keys left
C18_Witness ==
  /\ SessionReturned
  /\ cmd = "attach"
  /\ ~cleanupFailed
  /\ "controlSocket" \in attempted
  /\ resources = {"pod", "privateKey", "hostKey"}

\* C19: a deferred call leaves the value returned, finalErr and the captured
\* output as they are whether its removal fails or not, the deferred calls
\* after it still run, and only recordHistory writes the history
C19_CleanupFailureHarmless ==
  [][spc = "defers"
       => /\ ret' = ret
          /\ finalErr' = finalErr
          /\ stdoutContent' = stdoutContent
          /\ stderrContent' = stderrContent
          /\ deferred' = Tail(deferred)
          /\ Head(deferred) # "recordHistory" => history' = history
          /\ Head(deferred) = "recordHistory" => history'.ExitCode = ExitCode(finalErr)]_vars

\* the removal of the remote directory failed; the session succeeded and its
\* history was written after the failure
C19_Witness ==
  /\ SessionReturned
  /\ cleanupFailed
  /\ "remoteBaseDir" \in (resources \cap attempted)
  /\ ret = Nil
  /\ history.Recorded
  /\ history.ExitCode = 0
  /\ history.Stdout = "out"

\* ---------------------------------------------------------------------------
\* Command construction: the argument list of the local execution and the
\* command string of the remote execution
\* ---------------------------------------------------------------------------

\* the longest Args of a request
MaxArgs == 2

\* strings.Join(parts, sep)
RECURSIVE StringsJoin(_, _)
StringsJoin(parts, sep) ==
  IF parts = <<>> THEN <<>>
  ELSE IF Len(parts) = 1 THEN parts[1]
  ELSE parts[1] \o sep \o StringsJoin(Tail(parts), sep)

\* strings.ReplaceAll(s, c, new) for a one-character c
RECURSIVE ReplaceAll(_, _, _)
ReplaceAll(s, c, new) ==
  IF s = <<>> THEN <<>>
  ELSE (IF Head(s) = c THEN new ELSE <<Head(s)>>) \o ReplaceAll(Tail(s), c, new)

\* the characters shellescape leaves unquoted: \w and @%+=:,./-
SafeChars ==
  {LowerLetters[i] : i \in DOMAIN LowerLetters} \cup {DecDigits[i] : i \in DOMAIN DecDigits}
    \cup {"A", "B", "C", "D", "E", "F", "G", "H", "I", "J", "K", "L", "M", "N", "O", "P",
          "Q", "R", "S", "T", "U", "V", "W", "X", "Y", "Z",
          "_", "@", "%", "+", "=", ":", ",", ".", "/", "-"}

\* shellescape.Quote
Quote_Unquoted(s) == s

Quote(s) ==
  IF s = <<>> THEN <<"'", "'">>
  ELSE IF \E i \in DOMAIN s : s[i] \notin SafeChars
       THEN <<"'">> \o ReplaceAll(s, "'", <<"'", "\"", "'", "\"", "'">>) \o <<"'">>
       ELSE s

\* the end of BuildRecordArgs, BuildStatArgs and BuildC2CRecordArgs: the PIDs
\* with sleep, or the binary with its arguments
Target(opts) ==
  IF Len(opts.PIDs) > 0
  THEN <<<<"-", "p">>, StringsJoin(opts.PIDs, <<",">>), <<"s", "l", "e", "e", "p">>,
         Itoa(opts.Duration)>>
  ELSE IF opts.Binary # <<>> THEN <<<<"-", "-">>, opts.Binary>> \o opts.Args
  ELSE <<>>

\* -e Event, -c Count and -o OutputPath of BuildRecordArgs and BuildC2CRecordArgs
EventAndOutput(opts) ==
  (IF opts.Event # <<>>
   THEN <<<<"-", "e">>, opts.Event>>
          \o (IF opts.Count > 0 THEN <<<<"-", "c">>, Itoa(opts.Count)>> ELSE <<>>)
   ELSE <<>>)
  \o <<<<"-", "o">>,
       IF opts.OutputPath = <<>> THEN <<"p", "e", "r", "f", ".", "d", "a", "t", "a">>
       ELSE opts.OutputPath>>

BuildRecordArgs(opts) ==
  <<<<"r", "e", "c", "o", "r", "d">>, <<"-", "g">>,
    <<"-", "-", "c", "a", "l", "l", "-", "g", "r", "a", "p", "h">>, <<"f", "p">>>>
  \o EventAndOutput(opts) \o Target(opts)

BuildStatArgs(opts) ==
  <<<<"s", "t", "a", "t">>>>
  \o (IF opts.Detail THEN <<<<"-", "d">>>> ELSE <<>>)
  \o [i \in 1..(2 * Len(opts.Events)) |->
        IF i % 2 = 1 THEN <<"-", "e">> ELSE TrimSpace(opts.Events[i \div 2])]
  \o Target(opts)

BuildC2CRecordArgs(opts) ==
  <<<<"c", "2", "c">>, <<"r", "e", "c", "o", "r", "d">>>>
  \o EventAndOutput(opts) \o Target(opts)

\* the argument list of the tool the request names
BuildArgs(opts) ==
  CASE opts.tool = "record" -> BuildRecordArgs(opts)
    [] opts.tool = "stat" -> BuildStatArgs(opts)
    [] opts.tool = "c2c" -> BuildC2CRecordArgs(opts)

\* BuildRecordCommand, BuildStatCommand and BuildC2CRecordCommand: "perf",
\* then each argument of the tool's argument list quoted, joined by spaces
BuildCommand(opts) ==
  LET args == BuildArgs(opts)
  IN StringsJoin(<<<<"p", "e", "r", "f">>>> \o [i \in DOMAIN args |-> Quote(args[i])],
                 <<" ">>)

\* the arguments of a request
ArgStrings == {<<>>, <<"-", "v">>, <<"a", " ", "b">>, <<"'", "$">>}

ArgLists == UNION {[1..n -> ArgStrings] : n \in 0..MaxArgs}

\* the requests: RecordOptions, StatOptions and C2COptions
Requests ==
  LET targets ==
        {[PIDs |-> p, Duration |-> IF p = <<>> THEN 0 ELSE 10, Binary |-> b, Args |-> a] :
           p \in {<<>>, <<<<"7">>>>, <<<<"7">>, <<"8", "1">>>>},
           b \in {<<>>, <<".", "/", "t">>, <<"m", " ", "t">>},
           a \in ArgLists}
      sampled ==
        {[Event |-> e, Count |-> c, OutputPath |-> o] :
           e \in {<<>>, <<"c", ":", "u">>, <<"l", " ", "s">>},
           c \in {0, 9},
           o \in {<<>>, <<"/", "r", "/", "d">>}}
      counted ==
        {[Events |-> e, Detail |-> d] :
           e \in {<<>>, <<<<" ", "c">>>>, <<<<"c", ":", "u">>, <<"l", " ", "s">>>>},
           d \in BOOLEAN}
  IN {[tool |-> t, Event |-> x.Event, Count |-> x.Count, OutputPath |-> x.OutputPath,
       Events |-> <<>>, Detail |-> FALSE, PIDs |-> y.PIDs, Duration |-> y.Duration,
       Binary |-> y.Binary, Args |-> y.Args] :
        t \in {"record", "c2c"}, x \in sampled, y \in targets}
     \cup
     {[tool |-> "stat", Event |-> <<>>, Count |-> 0, OutputPath |-> <<>>,
       Events |-> x.Events, Detail |-> x.Detail, PIDs |-> y.PIDs, Duration |-> y.Duration,
       Binary |-> y.Binary, Args |-> y.Args] :
        x \in counted, y \in targets}

CommandInit ==
  /\ ParseInit
  /\ ArchiveIdle
  /\ SessionIdle
  /\ NetIdle
  /\ request \in Requests
  /\ argv = <<>>
  /\ command = <<>>

\* the local execution: exec.Command("perf", Build...Args(opts)...)
LocalExecution ==
  /\ argv = <<>>
  /\ argv' = BuildArgs(request)
  /\ UNCHANGED <<pvars, avars, svars, nvars, request, command>>

\* the remote execution: perfCmd := Build...Command(opts)
RemoteExecution ==
  /\ command = <<>>
  /\ command' = BuildCommand(request)
  /\ UNCHANGED <<pvars, avars, svars, nvars, request, argv>>

CommandNext == LocalExecution \/ RemoteExecution

CommandSpec == CommandInit /\ [][CommandNext]_vars

\* the quoting a POSIX shell is in after the characters lo..hi of s, having
\* been in mode before them
RECURSIVE ModeAfter(_, _, _, _)
ModeAfter(s, lo, hi, mode) ==
  IF lo > hi THEN mode
  ELSE IF lo = hi
  THEN CASE mode = "single" -> IF s[lo] = "'" THEN "plain" ELSE mode
         [] mode = "double" -> IF s[lo] = "\"" THEN "plain" ELSE mode
         [] OTHER -> IF s[lo] = "'" THEN "single"
                     ELSE IF s[lo] = "\"" THEN "double" ELSE mode
  ELSE LET mid == (lo + hi) \div 2
       IN ModeAfter(s, mid + 1, hi, ModeAfter(s, lo, mid, mode))

\* the word of a command line s that starts at i and ends at e: its quotes
\* removed, a $ outside single quotes an expansion
ShellWord(s, i, e) ==
  LET M == [j \in i..e |-> ModeAfter(s, i, j - 1, "plain")]
      kept == SelectSeq([j \in 1..(e - i + 1) |-> i + j - 1],
                        LAMBDA j : ~ \/ s[j] = "'" /\ M[j] \in {"plain", "single"}
                                     \/ s[j] = "\"" /\ M[j] \in {"plain", "double"})
  IN [k \in DOMAIN kept |->
        IF s[kept[k]] = "$" /\ M[kept[k]] # "single" THEN "expansion" ELSE s[kept[k]]]

\* the words a POSIX shell makes of a command line from i on: unquoted
\* blanks separate words, single and double quotes group
RECURSIVE ShellWordsFrom(_, _)
ShellWordsFrom(s, i) ==
  IF i > Len(s) THEN <<>>
  ELSE IF s[i] = " " THEN ShellWordsFrom(s, i + 1)
  ELSE LET e == CHOOSE e \in i..Len(s) :
                  /\ \A j \in i..e : ~(s[j] = " " /\ ModeAfter(s, i, j - 1, "plain") = "plain")
                  /\ \/ e = Len(s)
                     \/ s[e + 1] = " " /\ ModeAfter(s, i, e, "plain") = "plain"
       IN <<ShellWord(s, i, e)>> \o ShellWordsFrom(s, e + 1)

ShellWords(s) == ShellWordsFrom(s, 1)

\* C20: the command string of the remote execution is "perf" followed by the
\* arguments of the local argument list, in their order, each quoted for the
\* shell; the shell that runs it passes perf the arguments of the local
\* execution
C20_RemoteEqualsLocal ==
  (argv # <<>> /\ command # <<>>)
    => /\ command = StringsJoin(<<<<"p", "e", "r", "f">>>> \o [i \in DOMAIN argv |-> Quote(argv[i])],
                                <<" ">>)
       /\ ShellWords(command) = <<<<"p", "e", "r", "f">>>> \o argv

\* perf stat -e c:u -e "l s" -- "m t" "" "'$" built for both executions
C20_Witness ==
  /\ request.tool = "stat"
  /\ request.Events = <<<<"c", ":", "u">>, <<"l", " ", "s">>>>
  /\ request.PIDs = <<>>
  /\ request.Binary = <<"m", " ", "t">>
  /\ request.Args = <<<<>>, <<"'", "$">>>>
  /\ argv = <<<<"s", "t", "a", "t">>, <<"-", "e">>, <<"c", ":", "u">>, <<"-", "e">>,
              <<"l", " ", "s">>, <<"-", "-">>, <<"m", " ", "t">>, <<>>, <<"'", "$">>>>
  /\ command # <<>>

\* ---------------------------------------------------------------------------
\* The transport: ssh.Client sessions, their control sockets and their remote
\* working directories
\* ---------------------------------------------------------------------------

\* []byte(s): a byte per character
Bytes(s) ==
  LET alphabet == <<"/", "-", ".">> \o DecDigits \o LowerLetters
  IN [i \in DOMAIN s |-> CHOOSE b \in DOMAIN alphabet : alphabet[b] = s[i]]

\* hex.EncodeToString(hash[:])[:n] of sha256.Sum256([]byte(s))
HashPrefix(s, n) ==
  LET hex == HexEncode(Sum256(Bytes(s)))
  IN SubSeq(hex, 1, IF n < Len(hex) THEN n ELSE Len(hex))

\* the control socket of setupMultiplexing: controlDir/ssh-<12 hex digits of the host's hash>
setupMultiplexing(host) == Join(<<"/", "x">>, <<"s", "s", "h", "-">> \o HashPrefix(host, 12))

\* GetRemoteRepositoryDir without the hash of the git root
GetRemoteRepositoryDir_NoHash(cwd, gitRoot, cacheDir) ==
  cacheDir \o <<"/", "r", "e", "p", "o", "s", "i", "t", "o", "r", "i", "e", "s", "/">>
    \o Base(cwd)

\* GetRemoteRepositoryDir: cacheDir/repositories/<base of cwd>-<8 hex digits
\* of the hash of the git root>
GetRemoteRepositoryDir(cwd, gitRoot, cacheDir) ==
  cacheDir \o <<"/", "r", "e", "p", "o", "s", "i", "t", "o", "r", "i", "e", "s", "/">>
    \o Base(cwd) \o <<"-">> \o HashPrefix(gitRoot, 8)

\* the repositories sessions originate from: two on one machine, and one on
\* another machine at the path of the first
Repos ==
  {[repo |-> "A", machine |-> "m1", gitRoot |-> <<"/", "a", "/", "p">>],
   [repo |-> "B", machine |-> "m1", gitRoot |-> <<"/", "b", "/", "p">>],
   [repo |-> "C", machine |-> "m2", gitRoot |-> <<"/", "a", "/", "p">>]}

Hosts == {<<"h", "1">>, <<"h", "2">>}

Sessions == {1, 2}

\* runTest of a session with --remote-host host in repository r, before ssh.New
NewSession(r, host) ==
  [repo |-> r.repo, machine |-> r.machine, gitRoot |-> r.gitRoot, cwd |-> r.gitRoot,
   host |-> host, state |-> "new", controlPath |-> <<>>, remoteDir |-> <<>>,
   running |-> "none", fresh |-> FALSE, killed |-> FALSE, dirLost |-> FALSE]

TransportInit ==
  /\ ParseInit
  /\ ArchiveIdle
  /\ SessionIdle
  /\ CommandIdle
  /\ WaitIdle
  /\ ResolveIdle
  /\ ConcurrentIdle
  /\ sess \in [Sessions -> {NewSession(r, host) : r \in Repos, host \in Hosts}]
  /\ masters = {}
  /\ dirs = {}

\* the master a session's commands name: ControlPath=c.controlPath
Master(c) == <<c.machine, c.controlPath>>

\* buildSSHArgs: with ControlMaster=no a command runs over the master of
\* its control path if that master is alive, else over a connection of its own
buildSSHArgs(c) == IF Master(c) \in masters THEN "channel" ELSE "fresh"

\* ssh.New: setupMultiplexing starts or joins (ControlMaster=auto) the master
\* of the control path
sshNew(s, ok) ==
  /\ sess[s].state = "new"
  /\ LET c == [sess[s] EXCEPT !.controlPath = setupMultiplexing(sess[s].host)]
     IN IF ok
        THEN /\ sess' = [sess EXCEPT ![s] = [c EXCEPT !.state = "open"]]
             /\ masters' = masters \cup {Master(c)}
        ELSE /\ sess' = [sess EXCEPT ![s].state = "closed"]
             /\ UNCHANGED masters
  /\ UNCHANGED <<pvars, avars, svars, cvars, wvars, rvars, xvars, dirs>>

\* GetRemoteRepositoryDir and the mkdir -p of SyncDirectoryToRemote
Prepare(s) ==
  /\ sess[s].state = "open"
  /\ sess[s].running = "none"
  /\ sess[s].remoteDir = <<>>
  /\ LET dir == GetRemoteRepositoryDir(sess[s].cwd, sess[s].gitRoot, <<"/", "c">>)
         via == buildSSHArgs(sess[s])
     IN /\ sess' = [sess EXCEPT ![s].remoteDir = dir, ![s].running = via,
                                ![s].fresh = @ \/ via = "fresh"]
        /\ dirs' = dirs \cup {<<sess[s].host, dir>>}
  /\ UNCHANGED <<pvars, avars, svars, cvars, wvars, rvars, xvars, masters>>

\* RunCommand, and the ssh of executeRemoteTestInDir: a command starts
RunCommand(s) ==
  /\ sess[s].state = "open"
  /\ sess[s].running = "none"
  /\ sess[s].remoteDir # <<>>
  /\ LET via == buildSSHArgs(sess[s])
     IN sess' = [sess EXCEPT ![s].running = via, ![s].fresh = @ \/ via = "fresh"]
  /\ UNCHANGED <<pvars, avars, svars, cvars, wvars, rvars, xvars, masters, dirs>>

\* cmd.Run() returns
CommandDone(s) ==
  /\ sess[s].running # "none"
  /\ sess' = [sess EXCEPT ![s].running = "none"]
  /\ UNCHANGED <<pvars, avars, svars, cvars, wvars, rvars, xvars, masters, dirs>>

\* ControlPersist=30s: a master with no command running over it exits
ControlPersist(m) ==
  /\ m \in masters
  /\ \A s \in Sessions : ~(Master(sess[s]) = m /\ sess[s].running = "channel")
  /\ masters' = masters \ {m}
  /\ UNCHANGED <<pvars, avars, svars, cvars, wvars, rvars, xvars, sess, dirs>>

\* the deferred rm -rf remoteBaseDir of runTest
RemoveRemoteDir(s) ==
  /\ sess[s].state = "open"
  /\ sess[s].running = "none"
  /\ sess[s].remoteDir # <<>>
  /\ dirs' = dirs \ {<<sess[s].host, sess[s].remoteDir>>}
  /\ sess' = [t \in Sessions |->
                IF t = s
                THEN [sess[t] EXCEPT !.state = "cleaned",
                                     !.fresh = @ \/ buildSSHArgs(sess[s]) = "fresh"]
                ELSE IF /\ sess[t].state = "open"
                        /\ sess[t].host = sess[s].host
                        /\ sess[t].remoteDir = sess[s].remoteDir
                THEN [sess[t] EXCEPT !.dirLost = TRUE]
                ELSE sess[t]]
  /\ UNCHANGED <<pvars, avars, svars, cvars, wvars, rvars, xvars, masters>>

\* Client.Close: ssh -O exit ends the master of the control path and the
\* commands running over it, os.Remove removes the socket
Close(s) ==
  /\ sess[s].state \in {"open", "cleaned"}
  /\ sess[s].running = "none"
  /\ masters' = masters \ {Master(sess[s])}
  /\ sess' = [t \in Sessions |->
                IF t = s THEN [sess[t] EXCEPT !.state = "closed"]
                ELSE IF /\ Master(sess[t]) = Master(sess[s])
                        /\ Master(sess[s]) \in masters
                        /\ sess[t].running = "channel"
                THEN [sess[t] EXCEPT !.running = "none", !.killed = TRUE]
                ELSE sess[t]]
  /\ UNCHANGED <<pvars, avars, svars, cvars, wvars, rvars, xvars, dirs>>

TransportNext ==
  \/ \E s \in Sessions, ok \in BOOLEAN : sshNew(s, ok)
  \/ \E s \in Sessions : Prepare(s)
  \/ \E s \in Sessions : RunCommand(s)
  \/ \E s \in Sessions : CommandDone(s)
  \/ \E m \in masters : ControlPersist(m)
  \/ \E s \in Sessions : RemoveRemoteDir(s)
  \/ \E s \in Sessions : Close(s)

TransportSpec == TransportInit /\ [][TransportNext]_vars

\* the only session: the other one has not called ssh.New
Alone(s) == \A t \in Sessions \ {s} : sess[t].state = "new"

\* C21: once ssh.New has established the master of a session, no command of
\* that session runs over a connection of its own before the session closes
C21_AlwaysOverChannel == \A s \in Sessions : Alone(s) => ~sess[s].fresh

\* the master exited while the only session was idle, and the session's next
\* command ran over a connection of its own
C21_Witness ==
  \E s \in Sessions :
    /\ Alone(s)
    /\ sess[s].state = "open"
    /\ sess[s].running = "fresh"
    /\ masters = {}

\* two sessions with a remote working directory on one host
OnOneHost(s, t) ==
  /\ s # t
  /\ sess[s].host = sess[t].host
  /\ sess[s].remoteDir # <<>>
  /\ sess[t].remoteDir # <<>>

C25_NoDisruption ==
  \A s, t \in Sessions :
    (s # t /\ sess[s].repo # sess[t].repo) => (~sess[s].killed /\ ~sess[s].dirLost)

\* repositories A and B of one machine against one host: the Close of one
\* session ended the command of the other, their directories being separate
C25_Witness ==
  /\ sess[1].repo = "A"
  /\ sess[2].repo = "B"
  /\ sess[1].host = sess[2].host
  /\ sess[1].controlPath = sess[2].controlPath
  /\ sess[1].remoteDir # sess[2].remoteDir
  /\ sess[2].state = "closed"
  /\ sess[1].killed

\* ---------------------------------------------------------------------------
\* k8s Client.WaitForPodReady under the deadline of runAttach's execCtx
\* ---------------------------------------------------------------------------

\* the ticks of the 2 s ticker that fit before the deadline of execCtx
MaxPolls == 12

\* case <-ctx.Done() of WaitForPodReady's select is ready
ctxDoneReady_Never(done) == FALSE

ctxDoneReady(done) == done

WaitInit ==
  /\ ParseInit
  /\ ArchiveIdle
  /\ SessionIdle
  /\ CommandIdle
  /\ TransportIdle
  /\ ResolveIdle
  /\ ConcurrentIdle
  /\ pod \in {"absent", "pending"}
  /\ polls = 0
  /\ ctxDone = FALSE
  /\ anyPollOK = FALSE
  /\ wret = "none"

\* the cluster schedules the pod, the pod enters phase Running with a
\* container that is not ready yet, then every container is ready
PodProgress ==
  /\ pod # "ready"
  /\ pod' = CASE pod = "absent" -> "pending"
              [] pod = "pending" -> "running"
              [] pod = "running" -> "ready"
  /\ UNCHANGED <<pvars, avars, svars, cvars, tvars, rvars, xvars, polls, ctxDone, anyPollOK, wret>>

\* context.WithTimeout(context.Background(), 5*time.Minute) expires
Deadline ==
  /\ ~ctxDone
  /\ ctxDone' = TRUE
  /\ UNCHANGED <<pvars, avars, svars, cvars, tvars, rvars, xvars, pod, polls, anyPollOK, wret>>

\* case <-ticker.C returning nil for a failed GetPod and for a pod in phase
\* Running whatever its containers report
Poll_PhaseOnly(failed) ==
  /\ wret = "none"
  /\ ctxDone \/ polls < MaxPolls
  /\ failed \/ ~ctxDone
  /\ failed \/ pod # "absent"
  /\ polls' = IF ctxDone THEN polls ELSE polls + 1
  /\ anyPollOK' = (anyPollOK \/ ~failed)
  /\ wret' = IF failed \/ pod \in {"running", "ready"} THEN "nil" ELSE wret
  /\ UNCHANGED <<pvars, avars, svars, cvars, tvars, rvars, xvars, pod, ctxDone>>

\* case <-ticker.C: GetPod fails (continue), or the pod is not Running with
\* every container ready (next iteration), or it is (return nil)
Poll(failed) ==
  /\ wret = "none"
  /\ ctxDone \/ polls < MaxPolls
  /\ failed \/ ~ctxDone
  /\ failed \/ pod # "absent"
  /\ polls' = IF ctxDone THEN polls ELSE polls + 1
  /\ anyPollOK' = (anyPollOK \/ ~failed)
  /\ wret' = IF ~failed /\ pod = "ready" THEN "nil" ELSE wret
  /\ UNCHANGED <<pvars, avars, svars, cvars, tvars, rvars, xvars, pod, ctxDone>>

\* case <-ctx.Done(): return "timeout waiting for pod ..."
Timeout ==
  /\ wret = "none"
  /\ ctxDoneReady(ctxDone)
  /\ wret' = "timeout"
  /\ UNCHANGED <<pvars, avars, svars, cvars, tvars, rvars, xvars, pod, polls, ctxDone, anyPollOK>>

WaitNext == PodProgress \/ Deadline \/ (\E failed \in BOOLEAN : Poll(failed)) \/ Timeout

WaitSpec == WaitInit /\ [][WaitNext]_vars

\* the deadline expires, and the select, which chooses at random among its
\* ready cases, chooses ctx.Done() at last
WaitFairSpec == WaitSpec /\ WF_vars(Deadline) /\ WF_vars(Timeout)

\* C22: WaitForPodReady returns: nil only after a poll that found the pod
\* ready, the timeout error only after the deadline, and it returns even if
\* every poll fails
C22_WaitTerminates ==
  /\ <>(wret # "none")
  /\ [](wret = "nil" => (pod = "ready" /\ anyPollOK))
  /\ [](wret = "timeout" => ctxDone)

\* every poll up to the deadline failed and WaitForPodReady returned the
\* timeout error
C22_Witness ==
  /\ wret = "timeout"
  /\ polls = MaxPolls
  /\ ~anyPollOK
  /\ pod = "ready"

\* ---------------------------------------------------------------------------
\* The processes of a container: GetContainerIDs and findPIDsForContainers
\* ---------------------------------------------------------------------------

\* strings.Index(s, sub), 0-based, -1 when absent
IndexOf(s, sub) ==
  LET at == {i \in 1..(Len(s) - Len(sub) + 1) : SubSeq(s, i, i + Len(sub) - 1) = sub}
  IN IF at = {} THEN 0 - 1 ELSE (CHOOSE i \in at : \A j \in at : i <= j) - 1

\* stripContainerIDPrefix
stripContainerIDPrefix(containerID) ==
  LET idx == IndexOf(containerID, <<":", "/", "/">>)
  IN IF idx # 0 - 1 THEN SubSeq(containerID, idx + 4, Len(containerID)) ELSE containerID

\* the entries of /proc that have a cgroup file, as sort orders them
ProcEntries ==
  <<<<"1", "0", "0">>, <<"2", "0", "0">>, <<"s", "e", "l", "f">>,
    <<"t", "h", "r", "e", "a", "d", "-", "s", "e", "l", "f">>>>

\* the output of grep -l 'containerID' /proc/*/cgroup | cut -d/ -f3 | sort -u
RECURSIVE findCmd(_, _)
findCmd(containerID, entries) ==
  IF entries = <<>> THEN <<>>
  ELSE (IF IndexOf(proc[Head(entries)], containerID) # 0 - 1
        THEN Head(entries) \o <<"\n">> ELSE <<>>)
       \o findCmd(containerID, Tail(entries))

\* findPIDsForContainers keeping every line that is not empty
findPIDsForContainers_KeepSelf(output) ==
  SelectSeq(SplitN(TrimSpace(output), "\n", 0), LAMBDA line : line # <<>>)

\* findPIDsForContainers: the PIDs parsed from the output
findPIDsForContainers(output) ==
  SelectSeq(SplitN(TrimSpace(output), "\n", 0),
            LAMBDA line : /\ line # <<>>
                          /\ line # <<"s", "e", "l", "f">>
                          /\ line # <<"t", "h", "r", "e", "a", "d", "-", "s", "e", "l", "f">>)

\* the cgroup descriptors: of container ab, of container cd, of the host
Descriptors ==
  {<<"0", ":", ":", "/", "k", "/", "a", "b", "\n">>,
   <<"0", ":", ":", "/", "k", "/", "c", "d", "\n">>,
   <<"0", ":", ":", "/", "\n">>}

\* the ContainerID of a container status, and the identifier in it
ContainerIDs ==
  {[ContainerID |-> <<"x", ":", "/", "/", "a", "b">>, id |-> <<"a", "b">>],
   [ContainerID |-> <<"a", "b">>, id |-> <<"a", "b">>],
   [ContainerID |-> <<"y", "-", "o", ":", "/", "/", "c", "d">>, id |-> <<"c", "d">>]}

ResolveInit ==
  /\ ParseInit
  /\ ArchiveIdle
  /\ SessionIdle
  /\ CommandIdle
  /\ TransportIdle
  /\ WaitIdle
  /\ ConcurrentIdle
  /\ proc \in [{ProcEntries[i] : i \in DOMAIN ProcEntries} -> Descriptors]
  /\ container \in ContainerIDs
  /\ found = NotFound

\* GetContainerIDs, then findPIDsForContainers for the container: the
\* command ran, or it failed and the container is skipped with a warning
Resolve(ran) ==
  /\ ~found.returned
  /\ found' = [returned |-> TRUE, ran |-> ran,
               pids |-> IF ran
                        THEN findPIDsForContainers(
                               findCmd(stripContainerIDPrefix(container.ContainerID),
                                       ProcEntries))
                        ELSE <<>>]
  /\ UNCHANGED <<pvars, avars, svars, cvars, tvars, wvars, xvars, proc, container>>

ResolveNext == \E ran \in BOOLEAN : Resolve(ran)

ResolveSpec == ResolveInit /\ [][ResolveNext]_vars

\* C23: the PIDs found are exactly the numbered entries of /proc whose
\* cgroup descriptor contains the identifier of the container, each once,
\* and never "self" nor "thread-self"
C23_ExactPIDs ==
  (found.returned /\ found.ran)
    => LET numbered == {<<"1", "0", "0">>, <<"2", "0", "0">>}
       IN /\ {found.pids[i] : i \in DOMAIN found.pids}
               = {e \in numbered : IndexOf(proc[e], container.id) # 0 - 1}
          /\ \A i, j \in DOMAIN found.pids : found.pids[i] = found.pids[j] => i = j

\* of the descriptors of 100, 200 and self only that of 200 contains the
\* identifier of containerd-like ID x://ab: exactly <<200>> is found
C23_Witness ==
  /\ found.returned
  /\ found.ran
  /\ container.ContainerID = <<"x", ":", "/", "/", "a", "b">>
  /\ IndexOf(proc[<<"1", "0", "0">>], <<"a", "b">>) = 0 - 1
  /\ IndexOf(proc[<<"s", "e", "l", "f">>], <<"a", "b">>) = 0 - 1
  /\ found.pids = <<<<"2", "0", "0">>>>

\* ---------------------------------------------------------------------------
\* Two calls of ProcessPerfData parsing at once
\* ---------------------------------------------------------------------------

MaxConcurrentLines == 3

ConcurrentLines == {H_a10, F_f, F_g}

\* parser := perfscript.New() handing every call the one Parser of the package
perfscriptNew_Singleton(call) == 1

\* parser := perfscript.New() in call: a Parser of its own
perfscriptNew(call) == call

\* the Parser the second call works on
Parser2 == IF perfscriptNew(2) = perfscriptNew(1) THEN parser ELSE parse2.parser

ParseState2 ==
  [parser |-> Parser2, currentStack |-> parse2.currentStack,
   currentEventType |-> parse2.currentEventType, currentCount |-> parse2.currentCount,
   pc |-> parse2.pc, err |-> parse2.err]

\* the second call takes the state st of its Parse
SetParseState2(st, input, seen) ==
  /\ parse2' = [consumed |-> input, seen |-> seen, parser |-> st.parser,
                currentStack |-> st.currentStack,
                currentEventType |-> st.currentEventType,
                currentCount |-> st.currentCount, pc |-> st.pc, err |-> st.err]
  /\ IF perfscriptNew(2) = perfscriptNew(1)
     THEN parser' = st.parser
     ELSE UNCHANGED parser

\* both calls have made their Parser and entered the loop of Parse
ConcurrentInit ==
  /\ ParseInit
  /\ ArchiveIdle
  /\ SessionIdle
  /\ CommandIdle
  /\ TransportIdle
  /\ WaitIdle
  /\ ResolveIdle
  /\ parse2 = [consumed |-> <<>>, seen |-> 0, parser |-> ParseStart(New).parser,
               currentStack |-> <<>>, currentEventType |-> <<>>, currentCount |-> 0,
               pc |-> "scan", err |-> "nil"]
  /\ calls = 1

\* one iteration of the loop of Parse in the first call
ScanLine1 ==
  \E line \in ConcurrentLines : Len(consumed) < MaxConcurrentLines /\ ScanLine(line)

\* one iteration of the loop of Parse in the second call; seen is 1 when
\* the first call had read one line when the second read its first line
ScanLine2 ==
  \E line \in ConcurrentLines :
    /\ parse2.pc = "scan"
    /\ Len(parse2.consumed) < MaxConcurrentLines
    /\ SetParseState2(LoopBody(ParseState2, line), Append(parse2.consumed, line),
                      IF parse2.consumed = <<>>
                      THEN (IF Len(consumed) = 1 /\ pc = "scan" THEN 1 ELSE 0)
                      ELSE parse2.seen)
    /\ UNCHANGED <<consumed, currentStack, currentEventType, currentCount, pc, err,
                   avars, svars, cvars, tvars, wvars, rvars, calls>>

\* the input of the second call ends
ReadEOF2 ==
  /\ parse2.pc = "scan"
  /\ SetParseState2(AfterLoop(ParseState2, FALSE), parse2.consumed, parse2.seen)
  /\ UNCHANGED <<consumed, currentStack, currentEventType, currentCount, pc, err,
                 avars, svars, cvars, tvars, wvars, rvars, calls>>

ConcurrentNext == ScanLine1 \/ ReadEOF \/ ScanLine2 \/ ReadEOF2

ConcurrentSpec == ConcurrentInit /\ [][ConcurrentNext]_vars

\* what parseStackFrame extracts from each line that is a frame
FramesOf ==
  [line \in AllLines \cup MergeLines \cup FrameLines \cup HeaderLines |->
     IF IsGoodFrame(line) THEN {FrameFields(line)} ELSE {}]

\* the functions, (function, address) pairs and paths that the frames of
\* lines name
NamedBy(lines) ==
  LET frames == UNION {FramesOf[lines[i]] : i \in 1..Len(lines)}
  IN [functions |-> {f.funcName : f \in frames},
      locations |-> {LocKey(f.funcName, f.addr) : f \in frames},
      mappings  |-> {f.binaryPath : f \in frames} \ {<<>>}]

\* the Parser P holds the records of an input of these lines and no other
OwnRecordsOnly(P, lines) ==
  /\ Range(P.profile.Function) = NamedBy(lines).functions
  /\ DOMAIN P.functions = NamedBy(lines).functions
  /\ Range(P.profile.Location) = NamedBy(lines).locations
  /\ DOMAIN P.locations = NamedBy(lines).locations
  /\ Range(P.profile.Mapping) = NamedBy(lines).mappings
  /\ DOMAIN P.mappings = NamedBy(lines).mappings

FrameScan == \E line \in FrameLines : Len(consumed) < MaxLines /\ ScanLine(line)

FrameNext == FrameScan \/ ReadEOF

FrameSpec == Init /\ [][FrameNext]_vars

\* no element of seq occurs twice
NoDuplicates(seq) == \A i, j \in 1..Len(seq) : seq[i] = seq[j] => i = j

\* C27: the profile lists one Function for each function name, one Location
\* for each (function name, address) pair and one Mapping for each path of
\* the frames read, each once and under an ID of its own, however often the
\* frames recur; the Mapping of a bracketed pseudo-path is not the Mapping of
\* a binary
C27_OnePerKey ==
  /\ OwnRecordsOnly(parser, consumed)
  /\ NoDuplicates(parser.profile.Function)
  /\ NoDuplicates(parser.profile.Location)
  /\ NoDuplicates(parser.profile.Mapping)
  /\ \A i \in 1..Len(parser.profile.Function) :
       parser.functions[parser.profile.Function[i]]
         = [ID |-> i, Name |-> parser.profile.Function[i]]
  /\ \A i \in 1..Len(parser.profile.Location) :
       LET loc == parser.locations[parser.profile.Location[i]]
       IN /\ loc.ID = i
          /\ LocKey(loc.Function, loc.Address) = parser.profile.Location[i]
  /\ \A i \in 1..Len(parser.profile.Mapping) :
       /\ parser.mappings[parser.profile.Mapping[i]].ID = i
       /\ parser.mappings[parser.profile.Mapping[i]].File = parser.profile.Mapping[i]
  /\ \A i \in 1..Len(consumed) :
       (LineShape[consumed[i]].kind = "frame" /\ HasPrefix(LineShape[consumed[i]].path, <<"[">>))
          => \A k \in Range(parser.profile.Location) :
               (/\ parser.locations[k].Mapping # NoMapping
                /\ parser.locations[k].Mapping = LineShape[consumed[i]].path)
                  => \E j \in 1..Len(consumed) :
                       /\ LineShape[consumed[j]].kind = "frame"
                       /\ LineShape[consumed[j]].path = LineShape[consumed[i]].path
                       /\ LocKey(LineShape[consumed[j]].pair[1], LineShape[consumed[j]].pair[2]) = k

\* a frame of a binary read twice around a frame of the kernel: two
\* Functions, two Locations, two Mappings
C27_Witness ==
  /\ ReturnedProfile
  /\ consumed = <<H_a10, F_f, F_g, F_f>>
  /\ parser.profile.Function = <<<<"f">>, <<"g">>>>
  /\ Len(parser.profile.Location) = 2
  /\ parser.profile.Mapping = <<<<"/", "t", "/", "m">>, <<"[", "k", "]">>>>

\* the Locations of the profile that have a Mapping
MappedLocations ==
  {k \in Range(parser.profile.Location) : parser.locations[k].Mapping # NoMapping}

RECURSIVE FirstAppearances(_, _)
FirstAppearances(seq, acc) ==
  IF seq = <<>> THEN acc
  ELSE FirstAppearances(Tail(seq),
         IF Head(seq) \in Range(acc) THEN acc ELSE Append(acc, Head(seq)))

\* the sample types of these event names
CountTypes(events) == [i \in 1..Len(events) |-> [Type |-> events[i], Unit |-> "count"]]

\* the event names of the headers, in the order of the input
EventsSeen == [i \in 1..Len(Blocks) |-> Blocks[i].event]

\* a block that addSample turns into a sample: frames and a count other
\* than zero
IsSampled(block) == block.frames # <<>> /\ block.count # 0

\* the event names of the blocks that are turned into samples
EventsSampled ==
  LET B == Blocks
  IN [i \in 1..Len(SelectSeq(B, IsSampled)) |-> SelectSeq(B, IsSampled)[i].event]

\* C29 as stated: the SampleType list of the profile returned has one entry
\* for each event name seen in the input, in the order of first appearance,
\* each with unit "count"
C29_Original ==
  ReturnedProfile => SampleTypes = CountTypes(FirstAppearances(EventsSeen, <<>>))

\* C29: the SampleType list of the profile returned has one entry for each
\* event name of a block with at least one frame and a count other than
\* zero, in the order of the first such block, each with unit "count"
C29_OnePerSampledEvent ==
  ReturnedProfile => SampleTypes = CountTypes(FirstAppearances(EventsSampled, <<>>))

\* events a, b, a with stacks in this order: SampleType is a, b
C29_Witness ==
  /\ ReturnedProfile
  /\ consumed = <<H_a10, F_f, H_b5, F_g, H_a5, F_g>>
  /\ SampleTypes = <<[Type |-> <<"a">>, Unit |-> "count"], [Type |-> <<"b">>, Unit |-> "count"]>>

\* the path token of a frame line "<address> <symbol> (<path>)": the text
\* between the parenthesis that opens after the symbol and the one that ends
\* the line, "" when the line has none
PathToken(line) ==
  LET t == TrimSpace(line)
      i == IndexOf(t, <<" ", "(">>)
  IN IF i = 0 - 1 \/ t[Len(t)] # ")" THEN <<>> ELSE SubSeq(t, i + 3, Len(t) - 1)

PathTokens ==
  {PathToken(consumed[i]) : i \in {j \in 1..Len(consumed) : LineShape[consumed[j]].kind = "frame"}}

\* C30: the File of every Mapping is the path token of a frame line read,
\* verbatim
C30_PathVerbatim ==
  \A f \in Range(parser.profile.Mapping) : parser.mappings[f].File \in PathTokens

\* the frame of the deleted binary /t/m has been read after a frame of /t/m:
\* the full path of the first is kept as it is, the second has a Mapping of
\* the file "d)"
C30_Witness ==
  /\ ReturnedProfile
  /\ consumed = <<H_a10, F_f, F_deleted>>
  /\ PathTokens = {<<"/", "t", "/", "m">>, <<"/", "t", "/", "m", " ", "(", "d", ")">>}
  /\ parser.profile.Mapping = <<<<"/", "t", "/", "m">>, <<"d", ")">>>>

\* ---------------------------------------------------------------------------
\* Blocks that are dropped, the end of the stream, the empty stream
\* ---------------------------------------------------------------------------

\* C31: whatever Parse does while the stack in progress is empty or its
\* count is zero (the next header, the end of the input, a frame), the
\* samples and the sample types stay as they are
C31_DroppedBlocksLeaveSamples ==
  [][(currentStack = <<>> \/ currentCount = 0)
       => /\ parser'.profile.Sample = parser.profile.Sample
          /\ parser'.profile.SampleType = parser.profile.SampleType]_vars

\* a block of count 10, a block without frames and a block of count 0 with
\* the stack of the first: one Sample of value 10 for the one event a
C31_Witness ==
  /\ ReturnedProfile
  /\ consumed = <<H_a10, F_f, H_b5, H_a0, F_f>>
  /\ Len(Samples) = 1
  /\ Samples[1].Value = <<10>>
  /\ Len(SampleTypes) = 1

\* the parser after the loop of Parse has read lines and then one more header
AfterOneMoreHeader(lines) == LoopOver(ParseStart(New), Append(lines, H_a10)).parser

\* C32: the profile returned at the end of the input is the profile that
\* Parse holds once one more header has followed the input, and the last
\* block, when it has frames and a count other than zero, has its Sample
C32_LastBlockFinalized ==
  ReturnedProfile =>
    LET B == Blocks
    IN /\ parser.profile = AfterOneMoreHeader(consumed).profile
       /\ (B # <<>> /\ IsSampled(B[Len(B)])) => SamplesOf(B[Len(B)].frames) # {}

\* the input ends after the frame of its second block: both blocks have
\* their Sample
C32_Witness ==
  /\ ReturnedProfile
  /\ consumed = <<H_a10, F_f, H_b5, F_g>>
  /\ Len(Samples) = 2
  /\ Samples[2].Value = <<0, 5>>

\* C33: Parse of an input without lines returns no error and a profile
\* without samples, sample types, functions, locations and mappings
C33_EmptyInput ==
  (Returned /\ consumed = <<>>) => (err = "nil" /\ parser.profile = NewProfile)

\* Parse has returned for the input without lines
C33_Witness ==
  /\ Returned
  /\ consumed = <<>>
  /\ err = "nil"
  /\ Len(Samples) = 0
  /\ Len(parser.profile.Function) = 0

\* ---------------------------------------------------------------------------
\* Headers that lack a field
\* ---------------------------------------------------------------------------

\* Parse reading an input over HeaderLines
HeaderScan == \E line \in HeaderLines : Len(consumed) < MaxLines /\ ScanLine(line)

HeaderNext == HeaderScan \/ ReadEOF

HeaderSpec == Init /\ [][HeaderNext]_vars

\* the index of the timestamp among the fields of a header
\* "<comm> <pid> [<cpu>] <timestamp>: <count> <event>:", the first field that
\* ends with a colon
TimestampIndex(parts) ==
  CHOOSE i \in 1..Len(parts) :
    /\ HasSuffix(parts[i], <<":">>)
    /\ \A j \in 1..(i - 1) : ~HasSuffix(parts[j], <<":">>)

\* a header line without the two fields after its timestamp, or whose count
\* is not an integer in base 10
HeaderLacksField(line) ==
  /\ TrimSpace(line) # <<>>
  /\ IsHeaderLine(line)
  /\ LET parts == Fields(line)
         t     == TimestampIndex(parts)
     IN ~(Len(parts) = t + 2 /\ ParseInt(parts[t + 1]).ok)

LacksField == [line \in HeaderLines |-> HeaderLacksField(line)]

\* C34: once Parse has read a header that lacks its count or its event
\* name, it has returned an error and no profile
C34_MalformedHeaderIsError ==
  (\E i \in 1..Len(consumed) : LacksField[consumed[i]])
     => (pc = "done" /\ err \in HeaderErrors)

\* Parse has taken the header "p 7 1:" for count 7 of event 1 and has
\* returned a profile with that sample
C34_Witness ==
  /\ ReturnedProfile
  /\ consumed = <<H_bare, F_f>>
  /\ SampleTypes = <<[Type |-> <<"1">>, Unit |-> "count"]>>
  /\ Len(Samples) = 1
  /\ Samples[1].Value = <<7>>

\* the headers "a:" and "p 1: a:" end Parse with an error
C34_SimpleCases ==
  (consumed # <<>> /\ consumed[Len(consumed)] \in {H_one, H_nocount})
     => (pc = "done" /\ err \in HeaderErrors)

\* ---------------------------------------------------------------------------
\* A digest mismatch and the capture
\* ---------------------------------------------------------------------------

\* C35: once copyBinaryFromRemote has refused a transfer for a digest
\* mismatch, the capture does not go on to write and archive its profile
C35_MismatchIsFatal == refused # {} => apc = "copy"

\* the capture was archived with its profile although the transfer of a
\* binary had been refused; the binary is missing from the artifacts
C35_Witness ==
  /\ apc = "archived"
  /\ refused # {}
  /\ PerfPbGz \in runDirFiles
  /\ \A path \in refused : \A a \in Binaries : a.Path # path
  /\ artifacts[Len(artifacts)].Type = "PprofProfile"

\* ---------------------------------------------------------------------------
\* Parse called again on the same Parser
\* ---------------------------------------------------------------------------

MaxCalls == 2

MaxReuseLines == 3

ReuseLines == {H_a10, F_f, F_g}

\* Parse reading an input over ReuseLines
ReuseScan == \E line \in ReuseLines : Len(consumed) < MaxReuseLines /\ ScanLine(line)

\* Parse is called on the Parser once more, with a new input: it installs a
\* new Profile and new locals; the maps of the Parser stay as they are
ParseAgain ==
  /\ pc = "done"
  /\ calls < MaxCalls
  /\ consumed' = <<>>
  /\ SetParseState(ParseStart(parser))
  /\ calls' = calls + 1
  /\ UNCHANGED <<avars, svars, cvars, tvars, wvars, rvars, parse2>>

ReuseNext == ReuseScan \/ ReadEOF \/ ParseAgain

ReuseSpec == Init /\ [][ReuseNext]_vars

\* every record that the samples and locations of the profile refer to is
\* listed in the profile
ReferencesListed ==
  /\ \A i \in 1..Len(Samples) : \A j \in 1..Len(Samples[i].Location) :
       Samples[i].Location[j] \in Range(parser.profile.Location)
  /\ \A k \in Range(parser.profile.Location) :
       /\ parser.locations[k].Function \in Range(parser.profile.Function)
       /\ parser.locations[k].Mapping # NoMapping
            => parser.locations[k].Mapping \in Range(parser.profile.Mapping)

\* the IDs of the records listed in the profile are unique within each list
UniqueIDs ==
  /\ \A i, j \in 1..Len(parser.profile.Function) :
       parser.functions[parser.profile.Function[i]].ID
         = parser.functions[parser.profile.Function[j]].ID => i = j
  /\ \A i, j \in 1..Len(parser.profile.Location) :
       parser.locations[parser.profile.Location[i]].ID
         = parser.locations[parser.profile.Location[j]].ID => i = j
  /\ \A i, j \in 1..Len(parser.profile.Mapping) :
       parser.mappings[parser.profile.Mapping[i]].ID
         = parser.mappings[parser.profile.Mapping[j]].ID => i = j

\* C36: the profile that a later call of Parse on the same Parser returns is
\* the profile a new Parser returns for the same input, every record it
\* refers to is listed in it, and the IDs within each list are unique
C36_ReuseLikeFresh ==
  (ReturnedProfile /\ calls > 1)
     => /\ parser.profile = ParseOf(consumed)
        /\ ReferencesListed
        /\ UniqueIDs

\* the second call has parsed a block of the frame of f that the first call
\* had seen: its Sample refers to a Location, and through it to a Function
\* and a Mapping, that the profile returned does not list
C36_Witness ==
  /\ ReturnedProfile
  /\ calls = 2
  /\ consumed = <<H_a10, F_f>>
  /\ Len(Samples) = 1
  /\ parser.profile.Location = <<>>
  /\ parser.profile.Function = <<>>
  /\ parser.profile.Mapping = <<>>
  /\ Len(ParseOf(consumed).Function) = 1

\* ---------------------------------------------------------------------------
\* The Mapping of the Location of a frame
\* ---------------------------------------------------------------------------

\* C37: for every frame read that carries a path, the Location that
\* parseStackFrame returns for it, the one under the key of its function
\* name and address, has the Mapping of that path
C37_LocationHasFramePath ==
  \A i \in 1..Len(consumed) :
    (LineShape[consumed[i]].kind = "frame" /\ LineShape[consumed[i]].path # <<>>)
       => LET loc == parser.locations[LocKey(LineShape[consumed[i]].pair[1],
                                             LineShape[consumed[i]].pair[2])]
          IN loc.Mapping # NoMapping /\ loc.Mapping = LineShape[consumed[i]].path

\* f at 10 was read without a path and then with the path /t/m: the
\* Mapping of /t/m is listed, both frames of the Sample are the one Location
\* of f at 10, and that Location has no Mapping
C37_Witness ==
  /\ ReturnedProfile
  /\ consumed = <<H_a10, F_nopath, F_f>>
  /\ parser.profile.Mapping = <<<<"/", "t", "/", "m">>>>
  /\ Len(parser.profile.Location) = 1
  /\ Samples[1].Location = <<parser.profile.Location[1], parser.profile.Location[1]>>
  /\ parser.locations[parser.profile.Location[1]].Mapping = NoMapping

\* ---------------------------------------------------------------------------
\* The exit code of the history entry
\* ---------------------------------------------------------------------------

\* C38: when runTest has returned an error and its deferred recordHistory
\* has run, the entry does not hold exit code 0
C38_ErrorNeverRecordedAsSuccess ==
  (cmd = "test" /\ SessionReturned /\ history.Called /\ ret # Nil)
     => history.ExitCode # 0

\* buildTestBinary failed, runTest returned its error, and the entry was
\* written with exit code 0
C38_Witness ==
  /\ cmd = "test"
  /\ SessionReturned
  /\ failedIn = "buildTestBinary"
  /\ ret = ErrorString
  /\ finalErr = Nil
  /\ history.Recorded
  /\ history.ExitCode = 0

\* a failure of the test or of the processing of its data is recorded with
\* a code other than 0
C38_LateFailuresRecorded ==
  (cmd = "test" /\ SessionReturned /\ history.Called /\ ret # Nil
     /\ failedIn \notin {TestSteps[i].name : i \in 1..Len(TestSteps)})
     => history.ExitCode # 0

\* ---------------------------------------------------------------------------
\* What WaitForPodReady has observed when it returns nil
\* ---------------------------------------------------------------------------

====
